---- MODULE Spec2Model ----
(***************************************************************************)
(* A model of the wind event-driven I/O core: the Select driver            *)
(* (wind/driver.py), the PollLooper reactor (wind/looper.py) and the       *)
(* buffered stream (wind/web/stream.py, wind/datastructures.py), and of    *)
(* the HTTP server on top of it (wind/socketserver.py,                     *)
(* wind/web/httpmodels.py, wind/web/app.py).                               *)
(*                                                                         *)
(* Python values are modelled as follows.                                  *)
(*   - bytes are sequences of small integers; a deque of chunks is a       *)
(*     sequence of such sequences;                                         *)
(*   - an attribute that may be None is <<>> (None) or <<v>> (a value);    *)
(*   - an event mask is the set of its flags, so | is \cup and & is \cap;  *)
(*   - a raised exception is the field exc of the world record: "" while   *)
(*     nothing is propagating, else the exception's class name.            *)
(* The sequential code of a method is an operator from world record to     *)
(* world record; an action applies one public operation, or one step of    *)
(* run(), to the current world.                                            *)
(***************************************************************************)
EXTENDS Integers, Sequences, FiniteSets, TLC

VARIABLES
    stream,     \* the BaseStream/SocketStream object's fields
    reactor,    \* the PollLooper's fields: _handlers, _events, _callbacks, _running
    driver,     \* the Select driver's fields: read_fds, write_fds, error_fds
    sock,       \* the kernel side of the stream's socket and of the heartbeat pair
    pc,         \* where run() stands: "top", "poll", "dispatch", "stopped", "crashed"
    http,       \* the HTTP server: its listening socket, handler and application
    hist,       \* history: operations issued, callbacks invoked, bytes moved
    last        \* the last step: what it was, how it ended, the callbacks it invoked

vars == <<stream, reactor, driver, sock, http, pc, hist, last>>

----------------------------------------------------------------------------
(* Bounds of the model.                                                    *)

\* Operations the application issues on the stream.
MaxOps == 3
\* Bytes the peer sends in all.
MaxIn == 3
\* Bytes the peer sends in all where the stream is opened and closed.
MaxInOpen == 1
\* Length of the longest chunk handed to write().
MaxWrite == 3
\* Bytes the kernel's send buffer can hold.
MaxSpace == 2
\* Largest n passed to read_bytes.
MaxN == 2
\* Deferred callbacks scheduled in all.
MaxCallbacks == 3
\* Reactor calls (attach/update/remove) issued in all.
MaxReactorOps == 2
\* Loop iterations of run() that are followed.
MaxIter == 3
MaxInterrupts == 1
MaxChunks == 3
MaxChunkLen == 2
\* Calls of the driver's methods issued in all.
MaxDriverOps == 3
\* Items set in the dict in all.
MaxSets == 2
\* Bytes the heartbeat connection holds before its writer would block.
HeartbeatRoom == 5
\* Callbacks another thread schedules while run() goes round.
MaxThreadCallbacks == 2

(* Program constants, scaled down so that their effect is within reach:    *)
(* _read_chunk_size is 4096 and _write_chunk_size is 128 * 1024 in the     *)
(* source.                                                                 *)
ReadChunkSize == 2
WriteChunkSize == 2

\* The byte values the peer may send.
Bytes == {0, 1}
\* The delimiters read_until is called with.
Delimiters == {<<1>>, <<0, 1>>}
\* What a callback does when it is invoked.
Behaviours == {"ret", "close", "raise"}

\* File descriptors: the stream's socket, the heartbeat reader, another fd.
Fds == {4, 5, 6}
HeartbeatFd == CHOOSE fd \in Fds : \A other \in Fds : fd <= other
StreamFd == CHOOSE fd \in Fds \ {HeartbeatFd} : \A other \in Fds \ {HeartbeatFd} : fd <= other
OtherFd == CHOOSE fd \in Fds : fd \notin {HeartbeatFd, StreamFd}

----------------------------------------------------------------------------
(* Python helpers.                                                         *)

None == <<>>
Some(x) == <<x>>
Val(o) == o[1]

Min(a, b) == IF a < b THEN a ELSE b
Max(a, b) == IF a > b THEN a ELSE b

\* data[i:j] with Python's treatment of negative and out-of-range indices.
PyIndex(i, len) == IF i < 0 THEN Max(0, len + i) ELSE Min(i, len)
PySlice(data, i, j) ==
    LET a == PyIndex(i, Len(data))
        b == PyIndex(j, Len(data))
    IN  IF a >= b THEN <<>> ELSE SubSeq(data, a + 1, b)

RECURSIVE Join(_)
\* b''.join(chunks)
Join(chunks) == IF chunks = <<>> THEN <<>> ELSE Head(chunks) \o Join(Tail(chunks))

RECURSIVE FindFrom(_, _, _)
FindFrom(data, d, i) ==
    IF i + Len(d) > Len(data) THEN -1
    ELSE IF SubSeq(data, i + 1, i + Len(d)) = d THEN i
    ELSE FindFrom(data, d, i + 1)
\* data.find(d): the 0-based index of the first occurrence, or -1.
Find(data, d) == FindFrom(data, d, 0)

\* PollEvents
READ == {"READ"}
WRITE == {"WRITE"}
ERROR == {"ERROR"}

\* dict.pop(key, None)
DictDrop(f, k) == [x \in DOMAIN f \ {k} |-> f[x]]
\* dict[key] = value
DictPut(f, k, v) == [x \in DOMAIN f \cup {k} |-> IF x = k THEN v ELSE f[x]]
EmptyDict == [x \in {} |-> {}]

----------------------------------------------------------------------------
(* FlexibleDeque.gather, from the left.                                    *)

RECURSIVE GatherLeftLoop(_, _, _, _)

\* gather that does not put the rest of the boundary chunk back.
GatherLeftLoopDropping(q, chunks, counted, chunk_size) ==
    IF q = <<>> THEN q
    ELSE LET data == Head(q)
             rest == Tail(q)
             len_ == Len(data)
         IN  IF counted + len_ < chunk_size
             THEN IF rest = <<>>
                  THEN <<Join(Append(chunks, data))>>
                  ELSE GatherLeftLoop(rest, Append(chunks, data),
                                      counted + len_, chunk_size)
             ELSE LET slash == len_ - (counted + len_ - chunk_size)
                      taken == Append(chunks, PySlice(data, 0, slash))
                  IN  <<Join(taken)>> \o rest

\* The while loop of gather with left=True: q is the deque, chunks the
\* pieces collected so far, counted their total length.
GatherLeftLoop(q, chunks, counted, chunk_size) ==
    IF q = <<>> THEN q
    ELSE LET data == Head(q)
             rest == Tail(q)
             len_ == Len(data)
         IN  IF counted + len_ < chunk_size
             THEN IF rest = <<>>
                  THEN <<Join(Append(chunks, data))>>
                  ELSE GatherLeftLoop(rest, Append(chunks, data),
                                      counted + len_, chunk_size)
             ELSE LET slash == len_ - (counted + len_ - chunk_size)
                      taken == Append(chunks, PySlice(data, 0, slash))
                      back == IF slash < len_
                              THEN <<PySlice(data, slash, len_)>> \o rest
                              ELSE rest
                  IN  <<Join(taken)>> \o back

GatherLeft(q, chunk_size) == GatherLeftLoop(q, <<>>, 0, chunk_size)

RECURSIVE GatherRightLoop(_, _, _, _)
\* The while loop of gather with left=False: data is popped off the right
\* end and the pieces are collected by appendleft.
GatherRightLoop(q, chunks, counted, chunk_size) ==
    IF q = <<>> THEN q
    ELSE LET data == q[Len(q)]
             rest == SubSeq(q, 1, Len(q) - 1)
             len_ == Len(data)
         IN  IF counted + len_ < chunk_size
             THEN IF rest = <<>>
                  THEN <<Join(<<data>> \o chunks)>>
                  ELSE GatherRightLoop(rest, <<data>> \o chunks,
                                       counted + len_, chunk_size)
             ELSE LET slash == counted + len_ - chunk_size
                      taken == <<PySlice(data, slash, len_)>> \o chunks
                      back == IF slash < len_
                              THEN rest \o <<PySlice(data, 0, slash)>>
                              ELSE rest
                  IN  back \o <<Join(taken)>>

GatherRight(q, chunk_size) == GatherRightLoop(q, <<>>, 0, chunk_size)

----------------------------------------------------------------------------
(* The world the sequential code runs in.                                  *)

\* A callback: what it does when invoked, and the operation it was given to.
Callback(id, beh, kind, n, delimiter, include) ==
    [id |-> id, beh |-> beh, kind |-> kind, n |-> n, delimiter |-> delimiter,
     include |-> include]

\* No callback invocation.
NoCall == [cb |-> Callback(0, "ret", "none", 0, <<>>, FALSE),
           chunk |-> <<>>, unread |-> <<>>, open |-> TRUE, buffered |-> FALSE,
           dropped |-> FALSE]
NoCalls == [kind \in {"read", "write", "close"} |-> NoCall]

\* The state, with the exception propagating (exc), the value the method
\* that just ended returned (ret) and the stream callbacks invoked since the
\* operation began (made).
World == [stream |-> stream, reactor |-> reactor, driver |-> driver,
          sock |-> sock, http |-> http, hist |-> hist, exc |-> "",
          ret |-> None,
          made |-> NoCalls]

Raise(w, e) == [w EXCEPT !.exc = e]
Closed(w) == ~w.stream.is_opened

\* Statements in sequence: Rest runs on the world the statements before it
\* left, unless an exception is propagating.
Then(w, Rest(_)) == IF w.exc # "" THEN w ELSE Rest(w)
\* A local variable: Body with the value v.
With(v, Body(_)) == Body(v)

----------------------------------------------------------------------------
(* wind/driver.py: Select.                                                 *)

\* Select.fds
SelectFds(d) == d.read_fds \cup d.write_fds \cup d.error_fds

\* Select.register without the test for a fd that is registered already.
SelectRegisterUnchecked(w, fd, event_mask) ==
    IF event_mask \cap READ # {} \/ event_mask \cap ERROR # {}
    THEN [w EXCEPT !.driver.read_fds = @ \cup {fd}]
    ELSE IF event_mask \cap WRITE # {}
         THEN [w EXCEPT !.driver.write_fds = @ \cup {fd}]
    ELSE Raise(w, "PollError")

\* Select.register
SelectRegister(w, fd, event_mask) ==
    IF fd \in SelectFds(w.driver) THEN Raise(w, "PollError")
    ELSE IF event_mask \cap READ # {} \/ event_mask \cap ERROR # {}
         THEN [w EXCEPT !.driver.read_fds = @ \cup {fd}]
    ELSE IF event_mask \cap WRITE # {}
         THEN [w EXCEPT !.driver.write_fds = @ \cup {fd}]
    ELSE Raise(w, "PollError")

\* Select.unregister
SelectUnregister(w, fd) ==
    [w EXCEPT !.driver.read_fds = @ \ {fd},
              !.driver.write_fds = @ \ {fd},
              !.driver.error_fds = @ \ {fd}]

\* Select.modify. The except clause assigns to e.args[0]; e.args is a tuple,
\* so the assignment itself raises TypeError, which replaces the PollError.
SelectModify(w, fd, event_mask) ==
    LET w1 == SelectRegister(SelectUnregister(w, fd), fd, event_mask)
    IN  IF w1.exc = "PollError" THEN Raise(w1, "TypeError") ELSE w1

----------------------------------------------------------------------------
(* wind/driver.py: Kqueue and pick. The driver record of a program that    *)
(* picks its driver has, besides the sets of Select, the dict _events of   *)
(* Kqueue and the filters the kernel's queue holds (kq), a set of          *)
(* <<fd, filter>> pairs.                                                   *)

\* Kqueue.control. With a mask that has none of the flags no branch
\* assigns `kevent`, and reading it raises UnboundLocalError. The kernel
\* adds a filter, or deletes one, which fails for a filter it does not hold.
KqueueControl(w, fd, event_mask, flag) ==
    IF event_mask \cap (READ \cup ERROR \cup WRITE) = {}
    THEN Raise(w, "UnboundLocalError")
    ELSE With(<<fd, IF event_mask \cap (READ \cup ERROR) # {} THEN "read"
                    ELSE "write">>,
              LAMBDA kevent :
                  IF flag = "add"
                  THEN [w EXCEPT !.driver.kq = @ \cup {kevent}]
                  ELSE IF kevent \in w.driver.kq
                       THEN [w EXCEPT !.driver.kq = @ \ {kevent}]
                  ELSE Raise(w, "OSError"))

\* Kqueue.register
KqueueRegister(w, fd, event_mask) ==
    IF fd \in DOMAIN w.driver.events THEN Raise(w, "PollError")
    ELSE Then(KqueueControl(w, fd, event_mask, "add"),
              LAMBDA w1 : [w1 EXCEPT !.driver.events =
                                         DictPut(@, fd, event_mask)])

\* Kqueue.unregister: self._events[fd] raises KeyError for a fd that is
\* not registered.
KqueueUnregister(w, fd) ==
    IF fd \notin DOMAIN w.driver.events THEN Raise(w, "KeyError")
    ELSE Then(KqueueControl(w, fd, w.driver.events[fd], "delete"),
              LAMBDA w1 : [w1 EXCEPT !.driver.events = DictDrop(@, fd)])

\* Kqueue.modify, with the except clause of Select.modify.
KqueueModify(w, fd, event_mask) ==
    Then(KqueueUnregister(w, fd),
         LAMBDA w1 :
             With(KqueueRegister(w1, fd, event_mask),
                  LAMBDA w2 : IF w2.exc = "PollError"
                              THEN Raise(w2, "TypeError") ELSE w2))

\* pick that takes the first candidate the host has.
PickFirst(w, host) ==
    LET candidates == <<"select", "poll", "epoll", "kqueue">>
        drivers == SelectSeq(candidates, LAMBDA x : x \in host)
        title == [select |-> "Select", poll |-> "Poll", epoll |-> "Epoll",
                  kqueue |-> "Kqueue"]
    IN  IF drivers = <<>> THEN Raise(w, "WindException")
        ELSE [w EXCEPT !.driver.picked = Some(title[drivers[1]])]

\* pick: the last of the candidates that the host's select module has;
\* its name in title case is the name of the driver class. With none,
\* [-1] raises IndexError, which becomes WindException.
Pick(w, host) ==
    LET candidates == <<"select", "poll", "epoll", "kqueue">>
        drivers == SelectSeq(candidates, LAMBDA x : x \in host)
        title == [select |-> "Select", poll |-> "Poll", epoll |-> "Epoll",
                  kqueue |-> "Kqueue"]
    IN  IF drivers = <<>> THEN Raise(w, "WindException")
        ELSE [w EXCEPT !.driver.picked = Some(title[drivers[Len(drivers)]])]

----------------------------------------------------------------------------
(* wind/looper.py: the handler table.                                      *)

\* PollLooper.attach_handler
AttachHandler(w, fd, event_mask, handler) ==
    SelectRegister([w EXCEPT !.reactor.handlers = DictPut(@, fd, handler)],
                   fd, event_mask)

\* PollLooper.update_handler
UpdateHandler(w, fd, event_mask) == SelectModify(w, fd, event_mask)

\* PollLooper.remove_handler
RemoveHandler(w, fd) ==
    LET w1 == SelectUnregister(w, fd)
    IN  [w1 EXCEPT !.reactor.handlers = DictDrop(@, fd)]

----------------------------------------------------------------------------
(* wind/web/stream.py: closing and callbacks.                              *)

\* A callback invocation is counted in hist.calls and entered in the
\* world's record of the calls made, with what the stream looked like when
\* it was made: the bytes received and not yet handed to any callback
\* (hist.unread, which a read callback's chunk is taken off), whether the
\* stream was open, whether bytes were waiting in the write buffer, and
\* whether close() had dropped the callback before.
LogCall(w, c, chunk) ==
    LET call == [cb |-> c, chunk |-> chunk, unread |-> w.hist.unread,
                 open |-> w.stream.is_opened,
                 buffered |-> w.stream.write_buffer # <<>>,
                 dropped |-> c.id \in w.hist.dropped]
    IN  [w EXCEPT !.hist.calls[c.id] = @ + 1,
                  !.made[c.kind] = call,
                  !.hist.unread =
                      IF c.kind = "read"
                      THEN SubSeq(@, Len(chunk) + 1, Len(@)) ELSE @]

\* _clear without the call of remove_handler: the handler stays attached.
ClearKeepingHandler(w) ==
    LET pending == {Val(cb).id : cb \in {w.stream.read_callback,
                                         w.stream.write_callback} \ {None}}
    IN  [w EXCEPT !.stream.handler_event = None,
                  !.stream.read_callback = None,
                  !.stream.write_callback = None,
                  !.stream.read_buffer_bytes = 0,
                  !.stream.read_buffer = <<>>,
                  !.stream.write_buffer = <<>>,
                  !.stream.cleared = TRUE,
                  !.hist.dropped = @ \cup pending]

\* BaseStream._clear. The callbacks it drops are remembered in hist.dropped.
Clear(w) ==
    LET pending == {Val(cb).id : cb \in {w.stream.read_callback,
                                         w.stream.write_callback} \ {None}}
    IN  Then(IF w.stream.handler_event = None THEN w
             ELSE IF w.stream.socket = None
             THEN Raise([w EXCEPT !.stream.handler_event = None],
                        "AttributeError")
             ELSE RemoveHandler([w EXCEPT !.stream.handler_event = None],
                                Val(w.stream.socket)),
             LAMBDA w1 :
                 [w1 EXCEPT !.stream.read_callback = None,
                            !.stream.write_callback = None,
                            !.stream.read_buffer_bytes = 0,
                            !.stream.read_buffer = <<>>,
                            !.stream.write_buffer = <<>>,
                            !.stream.cleared = TRUE,
                            !.hist.dropped = @ \cup pending])

\* SocketStream._close_fd
CloseFd(w) ==
    IF w.stream.socket = None THEN Raise(w, "AttributeError")
    ELSE [w EXCEPT !.stream.socket = None,
                   !.hist.fd_closes = @ + 1]

RECURSIVE Close(_)
RECURSIVE RunCallback(_, _, _)
RECURSIVE ParseHeader(_, _)
RECURSIVE ParseBody(_, _)

\* The except clause of _run_callback: close the stream, raise again.
CallbackFailed(w, e) ==
    Then(Close([w EXCEPT !.exc = ""]), LAMBDA w1 : Raise(w1, e))

\* BaseStream._run_callback, with what the callback itself does.
RunCallback(w, callback, chunk) ==
    IF callback = None THEN w
    ELSE With(CASE Val(callback).beh = "ret" ->
                       LogCall(w, Val(callback), chunk)
                [] Val(callback).beh = "close" ->
                       Close(LogCall(w, Val(callback), chunk))
                [] Val(callback).beh = "raise" ->
                       Raise(LogCall(w, Val(callback), chunk),
                             "CallbackError")
                [] Val(callback).beh = "parse_header" ->
                       ParseHeader(LogCall(w, Val(callback), chunk), chunk)
                [] Val(callback).beh = "parse_body" ->
                       ParseBody(LogCall(w, Val(callback), chunk), chunk),
              LAMBDA w1 :
                  IF w1.exc # "" THEN CallbackFailed(w1, w1.exc) ELSE w1)

\* BaseStream._run_close_callback
RunCloseCallback(w) ==
    IF Closed(w) /\ w.stream.close_callback # None
    THEN Then(RunCallback(w, w.stream.close_callback, <<>>),
              LAMBDA w1 : [w1 EXCEPT !.stream.close_callback = None])
    ELSE w

\* close with only _clear under the `if not self.closed` guard.
CloseUnguarded(w) ==
    Then(IF Closed(w) THEN w ELSE Clear(w),
         LAMBDA w1 :
             Then(CloseFd([w1 EXCEPT !.stream.is_opened = FALSE]),
                  RunCloseCallback))

\* BaseStream.close
Close(w) ==
    IF Closed(w) THEN w
    ELSE Then(Clear(w),
              LAMBDA w1 :
                  Then(CloseFd([w1 EXCEPT !.stream.is_opened = FALSE]),
                       RunCloseCallback))

\* BaseStream.open
Open(w) == [w EXCEPT !.stream.is_opened = TRUE]

\* BaseStream._attach_stream_handler
AttachStreamHandler(w, event_mask) ==
    IF Closed(w) THEN w
    ELSE IF w.stream.handler_event = None
         THEN With([w EXCEPT !.stream.handler_event =
                                 Some(event_mask \cup ERROR)],
                   LAMBDA w1 :
                       IF w1.stream.socket = None
                       THEN Raise(w1, "AttributeError")
                       ELSE AttachHandler(w1, Val(w1.stream.socket),
                                          Val(w1.stream.handler_event),
                                          "stream"))
    ELSE IF Val(w.stream.handler_event) \cap event_mask = {}
         THEN With([w EXCEPT !.stream.handler_event =
                                 Some(Val(@) \cup event_mask)],
                   LAMBDA w1 :
                       IF w1.stream.socket = None
                       THEN Raise(w1, "AttributeError")
                       ELSE UpdateHandler(w1, Val(w1.stream.socket),
                                          event_mask))
    ELSE w

\* BaseStream._attach_read_handler
AttachReadHandler(w) ==
    IF w.stream.handler_event = None THEN AttachStreamHandler(w, READ) ELSE w

----------------------------------------------------------------------------
(* wind/web/stream.py: reading.                                            *)

\* BaseStream._to_read_buffer over SocketStream._read_from_fd. It returns
\* <<n>>, or None for a bare return.
\* recv takes what the kernel holds, up to _read_chunk_size bytes; with
\* nothing held it reports end of file if the peer has closed, and would
\* block otherwise; a failed socket makes it raise another socket.error.
ToReadBuffer(w) ==
    IF w.stream.socket = None THEN Raise(w, "AttributeError")
    ELSE IF w.sock.fault # "none" THEN [Close(w) EXCEPT !.ret = None]
    ELSE IF w.sock.wire = <<>>
    THEN [(IF w.sock.peer_eof THEN Close(w) ELSE w) EXCEPT !.ret = Some(0)]
    ELSE LET k == Min(Len(w.sock.wire), ReadChunkSize)
             chunk == SubSeq(w.sock.wire, 1, k)
         IN  [w EXCEPT !.sock.wire = SubSeq(@, k + 1, Len(@)),
                       !.stream.read_buffer = Append(@, chunk),
                       !.stream.read_buffer_bytes = @ + Len(chunk),
                       !.ret = Some(Len(chunk))]

RECURSIVE DrainLoop(_)
\* The while loop of _process_read.
DrainLoop(w) ==
    IF Closed(w) THEN w
    ELSE With(ToReadBuffer(w),
              LAMBDA w1 : IF w1.exc # "" \/ w1.ret = Some(0) THEN w1
                          ELSE DrainLoop(w1))

\* BaseStream._pop_callback
PopCallback(w, read) ==
    IF read THEN [w EXCEPT !.stream.read_callback = None]
    ELSE [w EXCEPT !.stream.write_callback = None]

\* BaseStream._pop_chunk: it returns the chunk popped.
PopChunk(w, read_bytes) ==
    With(GatherLeft(w.stream.read_buffer, read_bytes),
         LAMBDA q :
             IF q = <<>>
             THEN Raise([w EXCEPT !.stream.read_buffer_bytes =
                                      @ - read_bytes], "IndexError")
             ELSE [w EXCEPT !.stream.read_buffer_bytes = @ - read_bytes,
                            !.stream.read_buffer = Tail(q),
                            !.ret = Head(q)])

\* _run_callback(_pop_callback(), _pop_chunk(n)), the arguments evaluated
\* from left to right.
DeliverChunk(w, read_bytes) ==
    Then(PopChunk(PopCallback(w, TRUE), read_bytes),
         LAMBDA w1 : RunCallback(w1, w.stream.read_callback, w1.ret))

RECURSIVE DelimiterLoop(_)
\* The while loop of the delimiter branch of _read.
DelimiterLoop(w) ==
    IF w.stream.read_buffer = <<>> THEN w
    ELSE LET delimiter == Val(w.stream.delimiter)
             pos == Find(w.stream.read_buffer[1], delimiter)
         IN  IF pos # -1
             THEN LET upto == IF w.stream.include_delimiter
                              THEN pos + Len(delimiter) ELSE pos
                  IN  DeliverChunk([w EXCEPT !.stream.delimiter = None], upto)
             ELSE IF Len(w.stream.read_buffer) = 1 THEN w
             ELSE DelimiterLoop(
                    [w EXCEPT !.stream.read_buffer =
                        GatherLeft(@, Len(@[1] \o @[2]))])

\* BaseStream._read: it returns <<-1>> or None.
Read(w) ==
    IF Closed(w) THEN Raise(w, "StreamError")
    ELSE IF w.stream.bytes_to_read # None
    THEN IF w.stream.read_buffer_bytes < Val(w.stream.bytes_to_read)
         THEN [w EXCEPT !.ret = Some(-1)]
         ELSE [DeliverChunk(w, Min(Val(w.stream.bytes_to_read),
                                   w.stream.read_buffer_bytes))
                   EXCEPT !.ret = None]
    ELSE IF w.stream.delimiter # None
    THEN [DelimiterLoop(w) EXCEPT !.ret = None]
    ELSE [w EXCEPT !.ret = Some(-1)]

\* BaseStream._process_read
ProcessRead(w) ==
    Then(DrainLoop(w),
         LAMBDA w1 :
             IF Closed(w1) THEN w1
             ELSE IF w1.stream.read_buffer = <<>> THEN AttachReadHandler(w1)
             ELSE Then(Read(w1),
                       LAMBDA w2 : IF w2.ret = Some(-1)
                                   THEN AttachReadHandler(w2) ELSE w2))

\* BaseStream._add_callback with a callable that takes the chunk.
AddCallback(w, callback, read) ==
    IF callback = None THEN w
    ELSE IF read THEN [w EXCEPT !.stream.read_callback = callback]
    ELSE [w EXCEPT !.stream.write_callback = callback]

\* BaseStream.read_bytes with an int
ReadBytes(w, bytes_to_read, callback) ==
    ProcessRead(AddCallback([w EXCEPT !.stream.bytes_to_read =
                                          Some(bytes_to_read)],
                            callback, TRUE))

\* BaseStream.read_until with a bytes delimiter
ReadUntil(w, delimiter, callback, include) ==
    ProcessRead(AddCallback([w EXCEPT !.stream.delimiter = Some(delimiter),
                                      !.stream.include_delimiter = include],
                            callback, TRUE))

----------------------------------------------------------------------------
(* wind/web/stream.py: writing.                                            *)

\* BaseStream._to_write_buffer: the slices chunk[0:i + _write_chunk_size]
\* for i in range(0, len(chunk), _write_chunk_size).
WriteBlocks(chunk) ==
    [k \in 1..((Len(chunk) + WriteChunkSize - 1) \div WriteChunkSize) |->
        PySlice(chunk, 0, (k - 1) * WriteChunkSize + WriteChunkSize)]

ToWriteBuffer(w, chunk) ==
    IF chunk = <<>> THEN w
    ELSE IF w.stream.cleared THEN Raise(w, "AttributeError")
    ELSE [w EXCEPT !.stream.write_buffer = @ \o WriteBlocks(chunk)]

RECURSIVE WriteLoop(_, _)
\* The while loop of _process_write over SocketStream._write_to_fd; the
\* value of `written` when the loop ends is left in ret. send takes what
\* fits in the kernel's buffer, would block when nothing fits, and raises a
\* reset-class or another socket.error on a failed socket. hist.owed is what
\* was handed to write() and not yet taken by the kernel; bytes taken that
\* are not its first bytes set hist.garbled.
WriteLoop(w, written) ==
    IF w.stream.write_buffer = <<>> THEN [w EXCEPT !.ret = written]
    ELSE IF w.stream.socket = None THEN Raise(w, "AttributeError")
    ELSE IF w.sock.fault = "reset" THEN [Close(w) EXCEPT !.ret = written]
    ELSE IF w.sock.fault = "other" THEN Raise(w, "StreamError")
    ELSE LET head == w.stream.write_buffer[1]
             num_bytes == Min(Len(head), w.sock.space)
         IN  IF num_bytes = 0
             THEN [w EXCEPT !.stream.frozen = TRUE, !.ret = written]
             ELSE LET q == GatherLeft(w.stream.write_buffer, num_bytes)
                      taken == SubSeq(head, 1, num_bytes)
                      owed == w.hist.owed
                      inorder == Len(owed) >= num_bytes
                                   /\ SubSeq(owed, 1, num_bytes) = taken
                  IN  WriteLoop(
                        [w EXCEPT !.sock.space = @ - num_bytes,
                                  !.hist.owed =
                                      IF inorder
                                      THEN SubSeq(@, num_bytes + 1, Len(@))
                                      ELSE @,
                                  !.hist.garbled = @ \/ ~inorder,
                                  !.stream.frozen = FALSE,
                                  !.stream.write_buffer = Tail(q)],
                        Some(Head(q)))

\* BaseStream._process_write(chunk), partial=False
ProcessWrite(w, chunk) ==
    IF Closed(w) THEN Raise(w, "StreamError")
    ELSE Then(ToWriteBuffer(w, chunk),
              LAMBDA w1 :
                  Then(WriteLoop(w1, None),
                       LAMBDA w2 :
                           IF w2.stream.write_buffer # <<>>
                           THEN AttachStreamHandler(w2, WRITE)
                           ELSE RunCallback(PopCallback(w2, FALSE),
                                            w2.stream.write_callback,
                                            IF w2.ret = None THEN <<>>
                                            ELSE Val(w2.ret))))

\* BaseStream.write with a bytes chunk
Write(w, chunk, callback) ==
    ProcessWrite(AddCallback([w EXCEPT !.hist.owed = @ \o chunk],
                             callback, FALSE), chunk)

----------------------------------------------------------------------------
(* wind/web/stream.py: the handler the reactor dispatches to.              *)

\* BaseStream._handle_read
HandleRead(w) ==
    With(ProcessRead(w),
         LAMBDA w1 : IF w1.exc # "" THEN Close([w1 EXCEPT !.exc = ""])
                     ELSE w1)

\* BaseStream._handle_write: it calls _process_write() without the chunk
\* argument the method requires, so the call raises TypeError before the
\* method's body runs, and the except clause closes the stream.
HandleWrite(w) == Close(w)

\* BaseStream.event_handler
EventHandler(w, events) ==
    With(Then(IF events \cap READ # {} THEN HandleRead(w) ELSE w,
              LAMBDA w1 : IF events \cap WRITE # {} THEN HandleWrite(w1)
                          ELSE w1),
         LAMBDA w2 : IF w2.exc # "" THEN Raise(w2, "StreamError") ELSE w2)
----------------------------------------------------------------------------
(* wind/web/httpmodels.py, wind/web/app.py, wind/socketserver.py: the HTTP *)
(* server. The bytes of a request are written as the tokens of its         *)
(* grammar ("GET", " ", "/", "\r\n", ...); the header delimiter            *)
(* b"\r\n\r\n" is two "\r\n" tokens.                                       *)

RECURSIVE SplitSeq(_, _)
\* bytes.split(sep): the pieces of s between the occurrences of sep.
SplitSeq(s, sep) ==
    IF \A i \in 1..Len(s) : s[i] # sep THEN <<s>>
    ELSE LET i == CHOOSE i \in 1..Len(s) :
                      s[i] = sep /\ \A j \in 1..(i - 1) : s[j] # sep
         IN  <<SubSeq(s, 1, i - 1)>> \o SplitSeq(SubSeq(s, i + 1, Len(s)), sep)

\* HTTPHandler._parse_get_params: the pairs of the url's query, that is of
\* what follows its first "?". parse_qsl skips the fields that have no "="
\* or an empty value.
ParseGetParams(url) ==
    LET parts == SplitSeq(url, "?")
        query == IF Len(parts) > 1 THEN parts[2] ELSE <<>>
        fields == SplitSeq(query, "&")
    IN  {SplitSeq(fields[i], "=") :
            i \in {j \in 1..Len(fields) :
                      /\ Len(SplitSeq(fields[j], "=")) = 2
                      /\ SplitSeq(fields[j], "=")[2] # <<>>}}

\* Resource.finish. _generate_response builds HTTPResponse(headers=...,
\* status_code=...) without a request, and HTTPResponse.__init__ calls
\* _generate_reply, whose first statement reads self.request.version:
\* AttributeError on None. With a response that the handler made itself,
\* finish puts response.raw() in front of the chunks handed to
\* Resource.write and gathers them all into one chunk: http.response is
\* that chunk. gather (web/datastructures.py:46-60) joins with '', which
\* on Python 3 is not a byte string as raw() is: TypeError. What finish
\* does after it is the write of the chunk and HTTPConnection.close (the
\* connection's close callback is HTTPHandler._conn_close_callback, which
\* does nothing).
Finish(w) ==
    Then(IF w.http.response = None THEN Raise(w, "AttributeError")
         ELSE IF w.http.py3 THEN Raise(w, "TypeError") ELSE w,
         LAMBDA w1 :
             Then(Write([w1 EXCEPT !.http.replies = @ + 1],
                        Val(w1.http.response), None),
                  Close))

\* HTTPHandler._handle_request with an application: WindApp.react,
\* Path.follow and Resource.react for a synchronous handler registered for
\* the route "/" with the methods get and post. A url that is not
\* registered takes the error path, whose handler raises HTTPError('404').
\* The except clauses of Resource.react call _generate_response(status),
\* which raises as in Finish, for 404, 405 and for exceptions that are not
\* HTTPError; an HTTPError with another status is dropped.
React(w) ==
    LET request == Val(w.http.request)
        found == Head(SplitSeq(request.url, "?")) = <<"/">>
        raised == IF ~found THEN "HTTPError 404"
                  ELSE IF request.method \notin {"get", "post"}
                  THEN "HTTPError 405"
                  ELSE w.http.handler
    IN  With(IF raised = "" THEN Finish([w EXCEPT !.http.reacts = @ + 1])
             ELSE Raise([w EXCEPT !.http.reacts = @ + 1], raised),
             LAMBDA w1 :
                 IF w1.exc = "" THEN w1
                 ELSE IF w1.exc = "HTTPError 403" THEN [w1 EXCEPT !.exc = ""]
                 ELSE Raise(w1, "AttributeError"))

\* HTTPHandler._parse_body. _parse_post_params returns None for a request
\* whose Content-Type is neither form type.
ParseBody(w, chunk) ==
    IF w.http.request = None THEN Raise(w, "WindException")
    ELSE IF Val(w.http.request).method = "post"
         THEN React([w EXCEPT !.http.request = Some([Val(@) EXCEPT
                                                      !.body = chunk,
                                                      !.params = None])])
    ELSE Raise([w EXCEPT !.http.request = Some([Val(@) EXCEPT
                                                 !.body = chunk])],
               "NotImplementedError")

\* HTTPHandler._parse_header. On Python 3 the url is a str after to_str,
\* parse_qsl returns pairs of str, and decode_dict (codec.py:48-56) calls
\* to_str on each pair, which calls decode on its str members:
\* AttributeError for a query that has a parameter. On Python 2 decode_dict
\* returns the dict as it is. Unpacking the result of a split that has too
\* few or too many pieces raises ValueError, and so does dict() on a header
\* line without b': ' and int() on a Content-Length that is not a number;
\* the method catches IndexError only.
ParseHeader(w, chunk) ==
    IF chunk = <<>> THEN w
    ELSE LET parts == SplitSeq(chunk, "\r\n")
             meta == SelectSeq(SplitSeq(Head(parts), " "),
                               LAMBDA word : word # <<>>)
             lines == SelectSeq(Tail(parts), LAMBDA line : line # <<>>)
             fields == {SplitSeq(lines[i], ": ") : i \in 1..Len(lines)}
             lengths == {f[2] : f \in {g \in fields :
                                          g[1] = <<"Content-Length">>}}
             numbers == [t \in {<<"0">>, <<"1">>} |-> IF t = <<"1">> THEN 1
                                                     ELSE 0]
             lower == [t \in {"GET", "POST", "PUT", "DELETE"} |->
                          CASE t = "GET" -> "get" [] t = "POST" -> "post"
                            [] t = "PUT" -> "put" [] t = "DELETE" -> "delete"]
         IN  IF \/ Len(parts) < 2
                \/ Len(meta) # 3
                \/ \E f \in fields : Len(f) < 2
                \/ \E v \in lengths : v \notin DOMAIN numbers
             THEN Raise(w, "ValueError")
             ELSE With([method |-> lower[meta[1][1]], url |-> meta[2],
                        version |-> meta[3],
                        content_length |->
                            IF lengths = {} THEN 0
                            ELSE numbers[CHOOSE v \in lengths : TRUE],
                        body |-> None, params |-> Some({})],
                       LAMBDA request :
                           IF request.content_length # 0
                           THEN ReadBytes(
                                    [w EXCEPT !.http.request = Some(request)],
                                    request.content_length,
                                    Some(Callback(2, "parse_body", "read",
                                                  request.content_length,
                                                  <<>>, FALSE)))
                           ELSE IF request.method = "get"
                           THEN IF w.http.py3
                                   /\ ParseGetParams(request.url) # {}
                                THEN Raise([w EXCEPT !.http.request =
                                                         Some(request)],
                                           "AttributeError")
                                ELSE React([w EXCEPT !.http.request =
                                          Some([request EXCEPT !.params =
                                              Some(ParseGetParams(
                                                       request.url))])])
                           ELSE React([w EXCEPT !.http.request =
                                                    Some(request)]))

\* The _accept_handler of BaseServer._attach_accept_handler: accept until
\* EWOULDBLOCK, calling the callback for each connection. The callback is
\* self._event_handler, which TCPServer leaves raising NotImplementedError
\* and HTTPServer does not override; in a server that has
\* HTTPServer._connection_handler for it, the callback makes an HTTPHandler
\* on the connection's stream and calls its serve_request.
AcceptHandler(w) ==
    IF w.http.backlog = 0 THEN w
    ELSE IF ~w.http.wired
         THEN Raise([w EXCEPT !.http.backlog = 0], "NotImplementedError")
    ELSE ReadUntil(Open([w EXCEPT !.http.backlog = 0]), <<"\r\n", "\r\n">>,
                   Some(Callback(1, "parse_header", "read", -1,
                                 <<"\r\n", "\r\n">>, TRUE)), TRUE)


----------------------------------------------------------------------------
(* wind/looper.py: deferred callbacks, the heartbeat and run().            *)

\* Heartbeat.begin: one byte to the heartbeat writer; when the connection
\* is full send raises EWOULDBLOCK, which begin ignores.
HeartbeatBegin(w) ==
    [w EXCEPT !.sock.hb = IF @ < HeartbeatRoom THEN @ + 1 ELSE @]

\* Heartbeat.end: receive until the heartbeat reader would block.
HeartbeatEnd(w) == [w EXCEPT !.sock.hb = 0]

\* PollLooper.attach_callback
AttachCallback(w, callback) ==
    HeartbeatBegin([w EXCEPT !.reactor.callbacks = Append(@, callback),
                             !.hist.enqueued = Append(@, callback.id)])

\* PollLooper.stop
Stop(w) == [w EXCEPT !.reactor.running = FALSE]

RECURSIVE RunDeferredFrom(_, _)
\* PollLooper._run_callback: the for loop from the i-th callback on, then
\* the assignment of the empty list; an exception leaves the loop and is
\* swallowed. A callback returns, raises, stops the loop or schedules the
\* callback it carries as child.
RunDeferredFrom(w, i) ==
    IF i > Len(w.reactor.callbacks)
    THEN [w EXCEPT !.reactor.callbacks = <<>>]
    ELSE LET c == w.reactor.callbacks[i]
             w1 == [w EXCEPT !.hist.cb_calls = Append(@, c.id)]
         IN  CASE c.beh = "ret" -> RunDeferredFrom(w1, i + 1)
               [] c.beh = "raise" -> w1
               [] c.beh = "stop" -> RunDeferredFrom(Stop(w1), i + 1)
               [] c.beh = "sched" ->
                    RunDeferredFrom(
                        AttachCallback(w1, [id |-> c.child, beh |-> "ret",
                                            child |-> 0]), i + 1)

RunDeferred(w) == RunDeferredFrom(w, 1)

\* What select.select reports for the fds the driver watches: the stream's
\* socket is readable when bytes, end of file or an error are waiting, and
\* writable when the kernel's buffer has room or the socket has failed; the
\* heartbeat reader is readable when bytes are waiting.
Readable(w, fd) ==
    IF fd = StreamFd
    THEN w.sock.wire # <<>> \/ w.sock.peer_eof \/ w.sock.fault # "none"
    ELSE fd = HeartbeatFd /\ w.sock.hb > 0
Writable(w, fd) ==
    fd = StreamFd /\ (w.sock.space > 0 \/ w.sock.fault # "none")

\* Select.poll: the (fd, mask) pairs built by Events.add, given the fds
\* select.select returned as readable and as writable.
SelectPoll(read, write) ==
    [fd \in read \cup write |->
        (IF fd \in read THEN READ ELSE {}) \cup
        (IF fd \in write THEN WRITE ELSE {})]

\* dict.update
DictUpdate(f, g) ==
    [x \in DOMAIN f \cup DOMAIN g |-> IF x \in DOMAIN g THEN g[x] ELSE f[x]]

\* The handler call of run()'s dispatch loop for the popped (fd, mask).
\* A fd without a handler makes `handler` None, and calling None raises
\* TypeError, which the except clause raises again.
Dispatch(w, fd, event_mask) ==
    LET w1 == [w EXCEPT !.reactor.events = DictDrop(@, fd)]
    IN  IF fd \notin DOMAIN w1.reactor.handlers THEN Raise(w1, "TypeError")
        ELSE CASE w1.reactor.handlers[fd] = "stream" ->
                    EventHandler(w1, event_mask)
               [] w1.reactor.handlers[fd] = "heartbeat" -> HeartbeatEnd(w1)
               [] w1.reactor.handlers[fd] = "accept" -> AcceptHandler(w1)
               [] OTHER -> w1

----------------------------------------------------------------------------
(* The initial state: a reactor whose constructor has registered the       *)
(* heartbeat reader, a stream just constructed on an accepted socket, and  *)
(* run() about to start its first iteration. No method of the stream sets  *)
(* _close_callback; the stream's owner assigns it, or leaves it None.      *)

InitStream(close_callback) ==
    [is_opened |-> TRUE, cleared |-> FALSE, socket |-> Some(StreamFd),
     read_buffer |-> <<>>, write_buffer |-> <<>>, frozen |-> FALSE,
     read_buffer_bytes |-> 0, bytes_to_read |-> None, delimiter |-> None,
     include_delimiter |-> FALSE, handler_event |-> None,
     read_callback |-> None, write_callback |-> None,
     close_callback |-> close_callback]

InitReactor ==
    [handlers |-> [fd \in {HeartbeatFd} |-> "heartbeat"],
     events |-> EmptyDict, callbacks |-> <<>>, running |-> TRUE,
     polled |-> None]

InitDriver ==
    [read_fds |-> {HeartbeatFd}, write_fds |-> {}, error_fds |-> {}]

InitHist ==
    [nops |-> 0, nin |-> 0, unread |-> <<>>, owed |-> <<>>,
     garbled |-> FALSE, calls |-> [id \in 0..MaxOps |-> 0],
     fd_closes |-> 0, dropped |-> {}, enqueued |-> <<>>, cb_calls |-> <<>>,
     nsched |-> 0, nrops |-> 0, iter |-> 0, woke |-> {}, nintr |-> 0]

\* What a step shows of itself: the operation or loop step it was, the
\* (fd, mask) pair it dispatched if it was a dispatch, the exception it
\* ended with, whether the stream was closed before it, the stream
\* callbacks it invoked, and the argument of the operation where a
\* property needs it.
Step(op, w) ==
    [op |-> op, fd |-> None, event_mask |-> {}, exc |-> w.exc,
     was_closed |-> ~stream.is_opened, made |-> w.made, arg |-> None]

\* A step of the peer, or of run() outside a handler: nothing to show.
Quiet ==
    [op |-> "quiet", fd |-> None, event_mask |-> {}, exc |-> "",
     was_closed |-> FALSE, made |-> NoCalls, arg |-> None]

InitLast == Quiet

CloseCallbacks ==
    {None} \cup {Some(Callback(0, b, "close", 0, <<>>, FALSE)) : b \in Behaviours}

InitSock(space) ==
    [wire |-> <<>>, peer_eof |-> FALSE, space |-> space, fault |-> "none",
     hb |-> 0]

\* No HTTP server: nobody connects, nothing is parsed or answered.
NoHttp ==
    [backlog |-> 0, wired |-> FALSE, handler |-> "", tosend |-> <<>>,
     request |-> None, response |-> None, reacts |-> 0, replies |-> 0,
     py3 |-> FALSE]

\* The world after an operation becomes the state.
Commit(w) ==
    /\ stream' = w.stream
    /\ reactor' = w.reactor
    /\ driver' = w.driver
    /\ sock' = w.sock
    /\ http' = w.http
    /\ hist' = w.hist

\* A public operation was applied by the application: op is recorded with
\* the exception it ended with and whether the stream was closed before.
Applied(w, op) ==
    /\ Commit(w)
    /\ last' = Step(op, w)
    /\ pc' = pc

\* The world with one more stream operation issued.
Issue == [World EXCEPT !.hist.nops = @ + 1]

----------------------------------------------------------------------------
(* The application's operations on the stream. The application runs in     *)
(* handlers and deferred callbacks, or before run(): never between the end *)
(* of _run_callback and the return of poll. Only one read may be           *)
(* outstanding at a time, so a read is issued only when none is pending.   *)

AppTurn == pc # "poll" /\ hist.nops < MaxOps

ReadBytesOp(ns, behs) ==
    \E n \in ns, beh \in behs :
        /\ AppTurn
        /\ stream.read_callback = None
        /\ Applied(ReadBytes(Issue, n,
                             Some(Callback(hist.nops + 1, beh, "read", n,
                                           <<>>, FALSE))),
                   IF n < 0 THEN "read_bytes_negative" ELSE "read_bytes")

ReadUntilOp(ds, includes, behs) ==
    \E d \in ds, include \in includes, beh \in behs :
        /\ AppTurn
        /\ stream.read_callback = None
        /\ Applied(ReadUntil(Issue, d,
                             Some(Callback(hist.nops + 1, beh, "read", -1,
                                           d, include)), include),
                   "read_until")

\* The chunk written: len bytes, all different.
WriteChunk(len) == [i \in 1..len |-> i]

WriteOp(lens, behs) ==
    \E len \in lens, beh \in behs :
        /\ AppTurn
        /\ Applied(Write(Issue, WriteChunk(len),
                         Some(Callback(hist.nops + 1, beh, "write", len,
                                       <<>>, FALSE))),
                   "write")

DoClose ==
    /\ AppTurn
    /\ Applied(Close(Issue), "close")

DoOpen ==
    /\ AppTurn
    /\ Applied(Open(Issue), "open")

----------------------------------------------------------------------------
(* The peer and the kernel.                                                *)

PeerSendOf(bytes, max) ==
    \E b \in bytes :
        /\ hist.nin < max
        /\ ~sock.peer_eof
        /\ sock' = [sock EXCEPT !.wire = Append(@, b)]
        /\ hist' = [hist EXCEPT !.nin = @ + 1, !.unread = Append(@, b)]
        /\ last' = Quiet
        /\ UNCHANGED <<http, stream, reactor, driver, pc>>

PeerClose ==
    /\ ~sock.peer_eof
    /\ sock' = [sock EXCEPT !.peer_eof = TRUE]
    /\ last' = Quiet
    /\ UNCHANGED <<http, stream, reactor, driver, pc, hist>>

\* The peer reads: the kernel's send buffer has room for one more byte.
PeerDrain ==
    /\ sock.space < MaxSpace
    /\ sock' = [sock EXCEPT !.space = @ + 1]
    /\ last' = Quiet
    /\ UNCHANGED <<http, stream, reactor, driver, pc, hist>>

\* The connection fails: reset by the peer, or another error.
SockFault ==
    \E f \in {"reset", "other"} :
        /\ sock.fault = "none"
        /\ sock' = [sock EXCEPT !.fault = f]
        /\ last' = Quiet
        /\ UNCHANGED <<http, stream, reactor, driver, pc, hist>>

----------------------------------------------------------------------------
(* run(), one step at a time.                                              *)

\* The top of an iteration: leave if stopped, else run the deferred
\* callbacks.
LoopTop ==
    /\ pc = "top"
    /\ reactor.callbacks = <<>> \/ hist.iter < MaxIter
    /\ IF ~reactor.running
       THEN /\ pc' = "stopped"
            /\ last' = Quiet
            /\ UNCHANGED <<http, stream, reactor, driver, sock, hist>>
       ELSE /\ Commit(RunDeferred(
                   [World EXCEPT !.hist.iter =
                       IF reactor.callbacks = <<>> THEN @ ELSE @ + 1]))
            /\ pc' = "poll"
            /\ last' = Quiet

\* The poll call and the merge of its result into _events. select.select
\* fails on a closed fd, which ends run(); what it reports for a fd that
\* is neither the stream's nor the heartbeat's is up to that fd. The result
\* stays in run()'s local `events`, which is read again only after an
\* interrupted poll: `keep` says whether the specification has signals and
\* so keeps it.
PollReturns(keep) ==
    /\ pc = "poll"
    /\ IF StreamFd \in SelectFds(driver) /\ stream.socket = None
       THEN /\ pc' = "crashed"
            /\ last' = Quiet
            /\ UNCHANGED <<http, stream, reactor, driver, sock, hist>>
       ELSE \E other_read \in SUBSET (driver.read_fds \cap {OtherFd}),
               other_write \in SUBSET (driver.write_fds \cap {OtherFd}) :
                LET read == {fd \in driver.read_fds : Readable(World, fd)}
                              \cup other_read
                    write == {fd \in driver.write_fds : Writable(World, fd)}
                              \cup other_write
                IN  /\ reactor' = [reactor EXCEPT
                                      !.events =
                                          DictUpdate(@, SelectPoll(read, write)),
                                      !.polled =
                                          IF keep
                                          THEN Some(SelectPoll(read, write))
                                          ELSE @]
                    /\ pc' = "dispatch"
                    /\ last' = Quiet
                    /\ UNCHANGED <<http, stream, driver, sock, hist>>

\* poll in a program that receives no signal.
LoopPoll == PollReturns(FALSE)

\* The poll call interrupted by a signal: select.select raises EINTR,
\* which the except clause swallows, and run() goes on to
\* self._events.update(events) with the local `events` as the last poll
\* that returned left it. Before any poll returned the name is unbound and
\* reading it raises UnboundLocalError, which ends run().
LoopPollInterrupted ==
    /\ pc = "poll"
    /\ hist.nintr < MaxInterrupts
    /\ hist' = [hist EXCEPT !.nintr = @ + 1]
    /\ last' = [Quiet EXCEPT !.op = "interrupted"]
    /\ IF reactor.polled = None
       THEN /\ pc' = "crashed"
            /\ UNCHANGED <<http, stream, reactor, driver, sock>>
       ELSE /\ reactor' = [reactor EXCEPT
                              !.events = DictUpdate(@, Val(reactor.polled))]
            /\ pc' = "dispatch"
            /\ UNCHANGED <<http, stream, driver, sock>>

\* The handler for the popped (fd, mask) was called.
Handled(w, fd) ==
    /\ Commit(w)
    /\ pc' = IF w.exc # "" THEN "crashed" ELSE "dispatch"
    /\ last' = [Step("dispatch", w) EXCEPT !.fd = Some(fd),
                                           !.event_mask = reactor.events[fd]]

\* One turn of the dispatch loop: pop a pending event and call its handler;
\* with none pending the iteration is over. An exception ends run().
LoopDispatch ==
    /\ pc = "dispatch"
    /\ IF DOMAIN reactor.events = {}
       THEN /\ pc' = "top"
            /\ last' = Quiet
            /\ UNCHANGED <<http, stream, reactor, driver, sock, hist>>
       ELSE \E fd \in DOMAIN reactor.events :
                Handled(Dispatch(World, fd, reactor.events[fd]), fd)

----------------------------------------------------------------------------
(* Reading: an open stream on the running reactor, the application reading *)
(* by count and by delimiter while the peer sends.                         *)

InitRead ==
    /\ stream = InitStream(None)
    /\ reactor = InitReactor
    /\ driver = InitDriver
    /\ sock = InitSock(0)
    /\ http = NoHttp
    /\ pc = "top"
    /\ hist = InitHist
    /\ last = InitLast

DoReadBytes == ReadBytesOp(0..MaxN, {"ret"})
DoReadUntil == ReadUntilOp(Delimiters, BOOLEAN, {"ret"})
\* read_bytes with a negative int.
DoReadNegative == ReadBytesOp({-1}, {"ret"})
PeerSend == PeerSendOf(Bytes, MaxIn)

NextRead ==
    \/ DoReadBytes
    \/ DoReadUntil
    \/ DoReadNegative
    \/ PeerSend
    \/ LoopTop
    \/ LoopPoll
    \/ LoopDispatch

SpecRead == InitRead /\ [][NextRead]_vars

----------------------------------------------------------------------------
(* Writing: an open stream on the running reactor, the application writing *)
(* (and reading, so that the stream may hold a READ interest) while the    *)
(* peer takes bytes off the connection.                                    *)

InitWrite ==
    /\ stream = InitStream(None)
    /\ reactor = InitReactor
    /\ driver = InitDriver
    /\ sock \in {InitSock(s) : s \in 0..MaxSpace}
    /\ http = NoHttp
    /\ pc = "top"
    /\ hist = InitHist
    /\ last = InitLast

DoWrite == WriteOp(1..MaxWrite, {"ret"})
DoReadOne == ReadBytesOp({1}, {"ret"})

NextWrite ==
    \/ DoWrite
    \/ DoReadOne
    \/ PeerDrain
    \/ LoopTop
    \/ LoopPoll
    \/ LoopDispatch

SpecWrite == InitWrite /\ [][NextWrite]_vars

----------------------------------------------------------------------------
(* The stream's life: reads, writes, close and open by the application,    *)
(* whose callbacks return, close the stream or raise; a peer that sends,   *)
(* reads, closes or resets; the reactor dispatching the stream's events.   *)

Init ==
    /\ stream \in {InitStream(cb) : cb \in CloseCallbacks}
    /\ reactor = InitReactor
    /\ driver = InitDriver
    /\ sock = InitSock(1)
    /\ http = NoHttp
    /\ pc = "top"
    /\ hist = InitHist
    /\ last = InitLast

DoRead == ReadBytesOp({1}, Behaviours)
DoWriteAny == WriteOp({MaxWrite}, {"ret"})
PeerSendOne == PeerSendOf({1}, MaxInOpen)

Next ==
    \/ DoRead
    \/ DoWriteAny
    \/ DoClose
    \/ DoOpen
    \/ PeerSendOne
    \/ PeerClose
    \/ PeerDrain
    \/ SockFault
    \/ LoopTop
    \/ LoopPoll
    \/ LoopDispatch

Spec == Init /\ [][Next]_vars

----------------------------------------------------------------------------
(* The reactor by itself: handlers attached, updated and removed for any   *)
(* fd with any mask, callbacks scheduled that return, raise, stop the loop *)
(* or schedule another callback, and run() going round.                    *)

\* The masks the reactor is called with: none of the flags (not a valid
\* mask), and each interest.
ReactorMasks == {{}, READ, WRITE}

\* The fds the reactor is called with: one it registered itself, and one
\* that is the caller's.
ReactorFds == {HeartbeatFd, OtherFd}

ReactorTurn == pc # "poll" /\ hist.nrops < MaxReactorOps

Called == [World EXCEPT !.hist.nrops = @ + 1]

AttachHandlerOp(fds) ==
    \E fd \in fds, event_mask \in ReactorMasks, handler \in {"h1"} :
        /\ ReactorTurn
        /\ Applied(AttachHandler(Called, fd, event_mask, handler),
                   "attach_handler")

DoAttachHandler == AttachHandlerOp(ReactorFds)

DoUpdateHandler ==
    \E fd \in ReactorFds, event_mask \in ReactorMasks :
        /\ ReactorTurn
        /\ Applied(UpdateHandler(Called, fd, event_mask),
                   "update_handler")

RemoveHandlerOp(fds) ==
    \E fd \in fds :
        /\ ReactorTurn
        /\ Applied(RemoveHandler(Called, fd), "remove_handler")

DoRemoveHandler == RemoveHandlerOp(ReactorFds)

\* attach_callback, from the loop's thread or from another one. A callback
\* that schedules another one carries that one's id.
DoAttachCallback ==
    \E beh \in {"ret", "raise", "stop", "sched"} :
        LET ids == IF beh = "sched" THEN 2 ELSE 1
            id == hist.nsched + 1
        IN  /\ hist.nsched + ids <= MaxCallbacks
            /\ Applied(AttachCallback(
                          [World EXCEPT !.hist.nsched = @ + ids],
                          [id |-> id, beh |-> beh,
                           child |-> IF beh = "sched" THEN id + 1 ELSE 0]),
                       "attach_callback")

\* stop(), called by a handler while run() dispatches.
DoStop ==
    /\ ReactorTurn
    /\ pc = "dispatch"
    /\ reactor.running
    /\ Applied(Stop(Called), "stop")

InitReactorOnly ==
    /\ stream = InitStream(None)
    /\ reactor = InitReactor
    /\ driver = InitDriver
    /\ sock = InitSock(1)
    /\ http = NoHttp
    /\ pc = "top"
    /\ hist = InitHist
    /\ last = InitLast

NextReactor ==
    \/ DoAttachHandler
    \/ DoUpdateHandler
    \/ DoRemoveHandler
    \/ DoAttachCallback
    \/ LoopTop
    \/ LoopPoll
    \/ LoopDispatch

SpecReactor == InitReactorOnly /\ [][NextReactor]_vars

----------------------------------------------------------------------------
(* The loop woken and stopped: callbacks scheduled by another thread while *)
(* run() is in poll, handlers removed while their events are pending, and  *)
(* stop() called by handlers and callbacks. The heartbeat reader is the    *)
(* reactor's own: the application attaches and removes handlers for its    *)
(* own fd only.                                                            *)

\* attach_callback by another thread while run() is blocked in poll; the
\* callback returns.
DoWake ==
    LET id == hist.nsched + 1
    IN  /\ pc = "poll"
        /\ hist.nsched + 1 <= MaxCallbacks
        /\ Applied(AttachCallback(
                      [World EXCEPT !.hist.nsched = @ + 1,
                                    !.hist.woke = @ \cup {id}],
                      [id |-> id, beh |-> "ret", child |-> 0]),
                   "attach_callback")

NextLoop ==
    \/ DoWake
    \/ DoAttachCallback
    \/ AttachHandlerOp({OtherFd})
    \/ RemoveHandlerOp({OtherFd})
    \/ DoStop
    \/ LoopTop
    \/ LoopPoll
    \/ LoopDispatch

SpecLoop == InitReactorOnly /\ [][NextLoop]_vars

----------------------------------------------------------------------------
(* The reactor in a program that receives signals: any poll call may be    *)
(* interrupted.                                                            *)

NextSignals ==
    \/ AttachHandlerOp({OtherFd})
    \/ DoAttachCallback
    \/ LoopTop
    \/ PollReturns(TRUE)
    \/ LoopPollInterrupted
    \/ LoopDispatch

SpecSignals == InitReactorOnly /\ [][NextSignals]_vars

----------------------------------------------------------------------------
(* Reads.                                                                  *)

\* The invocation of a read callback in the step just taken, and the read
\* left waiting on the open stream.
ReadCall == last.made["read"]
ReadBytesCall ==
    ReadCall.cb.kind = "read" /\ ReadCall.cb.delimiter = <<>>
        /\ ReadCall.cb.n >= 0
ReadUntilCall == ReadCall.cb.kind = "read" /\ ReadCall.cb.delimiter # <<>>
ReadPending == stream.is_opened /\ stream.read_callback # None
ReadBytesPending ==
    ReadPending /\ Val(stream.read_callback).delimiter = <<>>
        /\ Val(stream.read_callback).n >= 0
ReadUntilPending ==
    ReadPending /\ Val(stream.read_callback).delimiter # <<>>

\* C1: a read_bytes(n, cb) callback is invoked with exactly the first n
\* unread bytes and not a second time, and no read_bytes(n, cb) is left
\* waiting on an open stream whose read buffer holds n bytes or more.
ReadBytesDeliversFirstN ==
    /\ ReadBytesCall =>
          /\ hist.calls[ReadCall.cb.id] = 1
          /\ ReadCall.chunk = PySlice(ReadCall.unread, 0, ReadCall.cb.n)
          /\ Len(ReadCall.chunk) = ReadCall.cb.n
    /\ ReadBytesPending =>
          Len(Join(stream.read_buffer)) < Val(stream.read_callback).n

\* C2: a read_until(delimiter, cb, include) callback is invoked with the
\* unread bytes up to the first occurrence of the delimiter, the delimiter
\* appended iff include, and not a second time; the bytes after the
\* delimiter are what is left to read; and no read_until is left waiting on
\* an open stream whose read buffer holds the delimiter.
ReadUntilDeliversUpToDelimiter ==
    /\ ReadUntilCall =>
          LET d == ReadCall.cb.delimiter
              pos == Find(ReadCall.unread, d)
              stop == IF ReadCall.cb.include THEN pos + Len(d) ELSE pos
          IN  /\ hist.calls[ReadCall.cb.id] = 1
              /\ pos # -1
              /\ ReadCall.chunk = PySlice(ReadCall.unread, 0, stop)
              /\ Join(stream.read_buffer) \o sock.wire =
                     PySlice(ReadCall.unread, pos + Len(d),
                             Len(ReadCall.unread))
    /\ ReadUntilPending =>
          Find(Join(stream.read_buffer),
               Val(stream.read_callback).delimiter) = -1

----------------------------------------------------------------------------
(* Writes.                                                                 *)

\* The invocation of a write callback in the step just taken, and the
\* write left waiting on the open stream.
WriteCall == last.made["write"]
WriteCalled == WriteCall.cb.kind = "write"
WritePending ==
    stream.is_opened /\ stream.write_callback # None
        /\ stream.write_buffer # <<>>

\* run() is dispatching a WRITE-ready event to the stream's handler.
WriteEvent ==
    /\ pc = "dispatch"
    /\ StreamFd \in DOMAIN reactor.events
    /\ "WRITE" \in reactor.events[StreamFd]
    /\ last'.op = "dispatch"
    /\ last'.fd = Some(StreamFd)

\* C3: a WRITE-ready event dispatched to a stream with a write pending
\* leaves the stream open and hands the kernel the bytes it has room for;
\* when that empties the write buffer the completion callback is invoked,
\* once, with the stream open.
WriteEventResumes ==
    [][(WriteEvent /\ WritePending) =>
          /\ stream'.is_opened
          /\ Len(hist'.owed) = Max(0, Len(hist.owed) - sock.space)
          /\ stream'.write_buffer = <<>> =>
                /\ WriteCall'.cb = Val(stream.write_callback)
                /\ WriteCall'.open
                /\ hist'.calls[WriteCall'.cb.id] = 1]_vars

\* C4: a write that would block returns without error and leaves the
\* stream with a write buffer of exactly the bytes the kernel has not
\* taken, frozen, and the fd watched for WRITE by one registration.
BlockedWriteWaitsForWrite ==
    (last.op = "write" /\ ~last.was_closed /\ stream.write_buffer # <<>>) =>
        /\ last.exc = ""
        /\ Join(stream.write_buffer) = hist.owed
        /\ ~hist.garbled
        /\ stream.frozen
        /\ StreamFd \in driver.write_fds
        /\ StreamFd \in DOMAIN reactor.handlers

\* C5: a write callback is invoked once, with the write buffer empty, and a
\* write callback waiting on an open stream is still waiting or has been
\* invoked after any step that leaves the stream open.
WriteCallbackOnceWhenDrained ==
    [][/\ WriteCalled' =>
             /\ hist'.calls[WriteCall'.cb.id] = 1
             /\ ~WriteCall'.buffered
       /\ (stream.is_opened /\ stream.write_callback # None
               /\ stream'.is_opened) =>
             \/ stream'.write_callback = stream.write_callback
             \/ hist'.calls[Val(stream.write_callback).id] = 1]_vars

----------------------------------------------------------------------------
(* The stream's lifecycle.                                                 *)

\* The application calls close() in this step.
CloseStep == hist'.nops = hist.nops + 1 /\ last'.op = "close"

\* C6: close() on a closed stream raises nothing and changes nothing, and
\* in no run is the close callback invoked or the fd closed a second time.
CloseOnClosedIsNoOp ==
    [][/\ hist'.calls[0] <= 1
       /\ hist'.fd_closes <= 1
       /\ (CloseStep /\ ~stream.is_opened) =>
             /\ last'.exc = ""
             /\ last'.made = NoCalls
             /\ UNCHANGED <<stream, reactor, driver, sock>>
             /\ hist'.calls = hist.calls
             /\ hist'.fd_closes = hist.fd_closes
             /\ hist'.dropped = hist.dropped]_vars

\* close() has been called twice, the second time on the closed stream,
\* after the fd was closed and the close callback invoked.
ClosedTwice ==
    /\ last.op = "close"
    /\ last.was_closed
    /\ hist.fd_closes = 1
    /\ hist.calls[0] = 1

\* The step just taken closed the stream.
JustClosed == last.op # "quiet" /\ ~last.was_closed /\ ~stream.is_opened

\* C7: a step that closes the stream leaves its fd without a handler and
\* out of the driver, its buffers and pending callbacks cleared; and no
\* callback that a close dropped is invoked in any step.
CloseDropsEverything ==
    /\ JustClosed =>
          /\ StreamFd \notin DOMAIN reactor.handlers
          /\ StreamFd \notin SelectFds(driver)
          /\ stream.handler_event = None
          /\ stream.cleared
          /\ stream.read_buffer = <<>> /\ stream.write_buffer = <<>>
          /\ stream.read_buffer_bytes = 0
          /\ stream.read_callback = None /\ stream.write_callback = None
    /\ \A kind \in DOMAIN last.made : ~last.made[kind].dropped

\* close() was called with a read and a write outstanding.
ClosedWithReadAndWriteOutstanding ==
    /\ JustClosed
    /\ last.op = "close"
    /\ Cardinality(hist.dropped) = 2

\* C8: a closed stream stays closed.
ClosedForGood == [][~stream.is_opened => ~stream'.is_opened]_vars

----------------------------------------------------------------------------
(* The reactor's tables and deferred callbacks.                            *)

\* C9: a fd is registered in the driver iff it has an entry in the
\* reactor's handler table.
HandlerIffRegistered ==
    \A fd \in Fds : fd \in SelectFds(driver) <=> fd \in DOMAIN reactor.handlers

\* C10: the deferred callbacks are invoked once each, in the order they
\* were enqueued; none that ran is still in the list; and when run() goes
\* from the top of an iteration to poll, every callback enqueued so far
\* has been invoked and the list is empty.
DeferredOnceInOrder ==
    [][/\ Len(hist'.cb_calls) <= Len(hist'.enqueued)
       /\ hist'.cb_calls = SubSeq(hist'.enqueued, 1, Len(hist'.cb_calls))
       /\ \A i \in DOMAIN reactor'.callbacks, j \in DOMAIN hist'.cb_calls :
              reactor'.callbacks[i].id # hist'.cb_calls[j]
       /\ (pc = "top" /\ pc' = "poll") =>
              /\ hist'.cb_calls = hist'.enqueued
              /\ reactor'.callbacks = <<>>]_vars

----------------------------------------------------------------------------
(* run(): waking, missing handlers, interrupted polls and stop().          *)

Range(s) == {s[i] : i \in DOMAIN s}

\* The heartbeat reader is registered for reading with its handler.
HeartbeatRegistered ==
    /\ HeartbeatFd \in driver.read_fds
    /\ HeartbeatFd \in DOMAIN reactor.handlers
    /\ reactor.handlers[HeartbeatFd] = "heartbeat"

\* The step dispatched the pending event of fd.
Dispatched(fd) == last'.op = "dispatch" /\ last'.fd = Some(fd)

\* C11: when a callback was scheduled by another thread while run() was in
\* poll, the heartbeat byte makes the registered heartbeat reader ready, so
\* poll returns it as readable; its handler drains the bytes; and at the
\* top of the next iteration the scheduled callback has been run.
WakeRunsScheduledCallback ==
    [][/\ (pc = "poll" /\ pc' = "dispatch" /\ sock.hb > 0
             /\ HeartbeatRegistered) =>
              /\ HeartbeatFd \in DOMAIN reactor'.events
              /\ READ \subseteq reactor'.events[HeartbeatFd]
       /\ (Dispatched(HeartbeatFd) /\ HeartbeatRegistered) =>
              /\ last'.exc = ""
              /\ sock'.hb = 0
       /\ (pc = "top" /\ pc' = "poll") =>
              hist.woke \subseteq Range(hist'.cb_calls)]_vars

\* C12: a pending event for a fd that has no handler is skipped: the
\* dispatch raises nothing, the entry is gone from the buffer and run()
\* goes on dispatching.
MissingHandlerSkipped ==
    [][\A fd \in Fds :
          (Dispatched(fd) /\ fd \notin DOMAIN reactor.handlers) =>
              /\ last'.exc = ""
              /\ pc' = "dispatch"
              /\ reactor'.events = DictDrop(reactor.events, fd)]_vars

\* C13: an interrupted poll does not end run() and puts nothing in the
\* pending-event buffer, whether or not a poll returned before it.
InterruptedPollRetries ==
    [][last'.op = "interrupted" =>
          /\ pc' # "crashed"
          /\ reactor'.events = reactor.events]_vars

\* C14: once stop() was called inside run(), every event still pending is
\* dispatched, the iteration ends, run() returns at the top of the next one,
\* and nothing is invoked after that.
StopEndsAfterIteration ==
    [][/\ ~reactor.running => ~reactor'.running
       /\ (~reactor.running /\ pc = "dispatch" /\ last'.op = "dispatch") =>
              /\ last'.exc = ""
              /\ pc' = "dispatch"
       /\ (~reactor.running /\ pc = "dispatch" /\ pc' # "dispatch") =>
              /\ reactor.events = EmptyDict
              /\ pc' = "top"
       /\ (~reactor.running /\ pc = "top" /\ pc' # "top") =>
              /\ pc' = "stopped"
              /\ hist'.cb_calls = hist.cb_calls
       /\ pc = "stopped" =>
              /\ pc' = "stopped"
              /\ hist'.cb_calls = hist.cb_calls
              /\ last'.op # "dispatch"]_vars

----------------------------------------------------------------------------
(* Errors of write and of read_bytes.                                      *)

\* send is about to fail with an error that is neither would-block nor of
\* the reset class, on an open stream that has its socket and buffers.
SendFails == sock.fault = "other" /\ stream.is_opened /\ ~stream.cleared

\* C18: a write that meets such an error, in a direct write() call or in
\* the flush a WRITE event drives, ends with StreamError and leaves the
\* stream closed.
WriteErrorClosesStream ==
    [][/\ (last'.op = "write" /\ SendFails) =>
              /\ last'.exc = "StreamError"
              /\ ~stream'.is_opened
       /\ (WriteEvent /\ SendFails /\ stream.write_buffer # <<>>) =>
              /\ last'.exc = "StreamError"
              /\ ~stream'.is_opened]_vars

\* C19: read_bytes with a negative count fails with a stream error, neither
\* stores nor invokes the callback, and leaves the read buffer and its byte
\* count as they were.
NegativeReadBytesRejected ==
    [][last'.op = "read_bytes_negative" =>
          /\ last'.exc = "StreamError"
          /\ stream'.read_callback = stream.read_callback
          /\ last'.made["read"] = NoCall
          /\ stream'.read_buffer = stream.read_buffer
          /\ stream'.read_buffer_bytes = stream.read_buffer_bytes]_vars

----------------------------------------------------------------------------
(* FlexibleDeque.gather by itself: the read buffer of a stream is a        *)
(* FlexibleDeque; it starts as any deque of chunks and gather is called on *)
(* it once, from either end, with any chunk_size up to one more than the   *)
(* bytes it holds.                                                         *)

Chunks == UNION {[1..n -> Bytes] : n \in 0..MaxChunkLen}
Deques == UNION {[1..n -> Chunks] : n \in 1..MaxChunks}

InitGather ==
    /\ stream \in {[InitStream(None) EXCEPT !.read_buffer = q] : q \in Deques}
    /\ reactor = InitReactor
    /\ driver = InitDriver
    /\ sock = InitSock(0)
    /\ http = NoHttp
    /\ pc = "top"
    /\ hist = InitHist
    /\ last = InitLast

DoGatherLeft ==
    \E chunk_size \in 0..(Len(Join(stream.read_buffer)) + 1) :
        /\ hist.nops = 0
        /\ stream' = [stream EXCEPT !.read_buffer =
                                       GatherLeft(@, chunk_size)]
        /\ hist' = [hist EXCEPT !.nops = @ + 1]
        /\ last' = [Quiet EXCEPT !.op = "gather", !.arg = Some(chunk_size)]
        /\ UNCHANGED <<reactor, driver, sock, http, pc>>

DoGatherRight ==
    \E chunk_size \in 0..(Len(Join(stream.read_buffer)) + 1) :
        /\ hist.nops = 0
        /\ stream' = [stream EXCEPT !.read_buffer =
                                       GatherRight(@, chunk_size)]
        /\ hist' = [hist EXCEPT !.nops = @ + 1]
        /\ last' = [Quiet EXCEPT !.op = "gather_right",
                                 !.arg = Some(chunk_size)]
        /\ UNCHANGED <<reactor, driver, sock, http, pc>>

NextGather == DoGatherLeft \/ DoGatherRight

SpecGather == InitGather /\ [][NextGather]_vars

\* C20: gather(k) from the left on a non-empty deque holding L >= k bytes
\* leaves a first chunk of exactly the first k bytes, and the chunks after
\* it hold exactly the other L - k bytes in order.
GatherLeftSplitsAtK ==
    [][last'.op = "gather" =>
          LET q == stream.read_buffer
              r == stream'.read_buffer
              k == Val(last'.arg)
              all == Join(q)
          IN  (q # <<>> /\ k <= Len(all)) =>
                  /\ r # <<>>
                  /\ Head(r) = SubSeq(all, 1, k)
                  /\ Join(Tail(r)) = SubSeq(all, k + 1, Len(all))
                  /\ Join(r) = all]_vars

\* gather(3) has coalesced chunks into a first chunk of three bytes and
\* left the fourth byte behind it.
GatheredThreeOfFour ==
    /\ last.op = "gather"
    /\ last.arg = Some(3)
    /\ Len(stream.read_buffer) = 2
    /\ Len(stream.read_buffer[1]) = 3
    /\ Len(stream.read_buffer[2]) = 1

\* C21: gather(k, left=False) on a non-empty deque holding L >= k bytes
\* leaves a last chunk of exactly k bytes, and the chunks joined are the
\* bytes that were there before, so that the chunks before the last one
\* hold L - k bytes.
GatherRightSplitsAtK ==
    [][last'.op = "gather_right" =>
          LET q == stream.read_buffer
              r == stream'.read_buffer
              k == Val(last'.arg)
          IN  (q # <<>> /\ k <= Len(Join(q))) =>
                  /\ r # <<>>
                  /\ Len(r[Len(r)]) = k
                  /\ Join(r) = Join(q)]_vars

\* C22: gather(k) from either end on a non-empty deque holding L <= k
\* bytes leaves exactly one chunk, the chunks that were there joined in
\* order.
GatherAllLeavesOneChunk ==
    [][last'.op \in {"gather", "gather_right"} =>
          LET q == stream.read_buffer
              k == Val(last'.arg)
          IN  (q # <<>> /\ k >= Len(Join(q))) =>
                  stream'.read_buffer = <<Join(q)>>]_vars

----------------------------------------------------------------------------
(* The HTTP server: a listening socket attached to the reactor, one client *)
(* connected and waiting in its backlog, run() about to start. The client  *)
(* sends one request, whole or in pieces, before or after the connection   *)
(* is accepted. The application has one synchronous handler, which         *)
(* returns, raises HTTPError('403') or raises another exception. The       *)
(* server is HTTPServer as it is written, or a server whose _event_handler *)
(* is HTTPServer._connection_handler. The interpreter is Python 2 or 3    *)
(* (wind/compat.py).                                                       *)

Requests ==
    {<<"GET", " ", "/", " ", "HTTP/1.1", "\r\n", "\r\n">>,
     <<"GET", " ", "/", "?", "a", "=", "1", " ", "HTTP/1.1", "\r\n", "\r\n">>,
     <<"GET", " ", "/nope", " ", "HTTP/1.1", "\r\n", "\r\n">>,
     <<"DELETE", " ", "/", "?", "a", "=", "1", " ", "HTTP/1.1", "\r\n",
       "\r\n">>,
     <<"POST", " ", "/", " ", "HTTP/1.1", "\r\n",
       "Content-Length", ": ", "0", "\r\n", "\r\n">>,
     <<"DELETE", " ", "/", " ", "HTTP/1.1", "\r\n", "\r\n">>,
     <<"POST", " ", "/", " ", "HTTP/1.1", "\r\n",
       "Content-Length", ": ", "1", "\r\n", "\r\n", "x">>,
     <<"PUT", " ", "/", " ", "HTTP/1.1", "\r\n",
       "Content-Length", ": ", "1", "\r\n", "\r\n", "x">>,
     <<"GET", " ", "/", "\r\n", "\r\n">>,
     <<"GET", " ", "/", " ", "HTTP/1.1", "\r\n", "Host", "\r\n", "\r\n">>}

\* The listening socket's fd is OtherFd; the stream is the one the handler
\* will make on the accepted socket, which serve_request opens.
InitServer ==
    /\ stream = [InitStream(None) EXCEPT !.is_opened = FALSE]
    /\ reactor = [InitReactor EXCEPT !.handlers = DictPut(@, OtherFd, "accept")]
    /\ driver = [InitDriver EXCEPT !.read_fds = @ \cup {OtherFd}]
    /\ sock = InitSock(1)
    /\ http \in {[NoHttp EXCEPT !.backlog = 1, !.wired = wired,
                                !.handler = handler, !.tosend = request,
                                !.py3 = py3] :
                    wired \in BOOLEAN, py3 \in BOOLEAN,
                    handler \in {"", "HTTPError 403", "KeyError"},
                    request \in Requests}
    /\ pc = "top"
    /\ hist = InitHist
    /\ last = InitLast

\* The client sends the next bytes of its request.
PeerSendRequest ==
    \E k \in 1..Len(http.tosend) :
        /\ sock' = [sock EXCEPT !.wire = @ \o SubSeq(http.tosend, 1, k)]
        /\ http' = [http EXCEPT !.tosend = SubSeq(@, k + 1, Len(@))]
        /\ hist' = [hist EXCEPT !.unread = @ \o SubSeq(http.tosend, 1, k)]
        /\ last' = Quiet
        /\ UNCHANGED <<stream, reactor, driver, pc>>

NextHttp ==
    \/ PeerSendRequest
    \/ LoopTop
    \/ LoopPoll
    \/ LoopDispatch

SpecHttp == InitServer /\ [][NextHttp]_vars

\* The step called HTTPHandler._parse_header or _parse_body last.
Parsed(beh) == last'.made["read"].cb.beh = beh

\* C15: react is called exactly once for an accepted connection: in the
\* step that parses the header block when no body is to follow or the
\* parse fails, and in the step that parses the body.
ReactCalledOncePerConnection ==
    [][/\ http'.reacts <= 1
       /\ Parsed("parse_body") => http'.reacts = 1
       /\ Parsed("parse_header") =>
              \/ http'.reacts = 1
              \/ /\ stream'.read_callback # None
                 /\ Val(stream'.read_callback).beh = "parse_body"]_vars

\* C16: a parse error on a malformed request does not end run().
MalformedRequestKeepsLoopRunning ==
    [][Parsed("parse_header") /\ http'.request = None => pc' # "crashed"]_vars

\* C17: once the application has reacted, the connection's stream is closed
\* and at most one response was written.
ReactedConnectionIsClosed ==
    [][http'.reacts > http.reacts =>
           ~stream'.is_opened /\ http'.replies <= 1]_vars

\* C31: the handler reads the header block, then the body. _parse_body is
\* called only after _parse_header; a header with a non-zero Content-Length
\* leaves a read of exactly that many bytes for _parse_body, and the
\* application reacts only once _parse_body has stored them; a header
\* without Content-Length, or with 0, makes the application react in the
\* step that parses it, with no read_bytes issued and with the url's query
\* parameters as the request's params iff the method is GET.
HeaderThenBodyThenDispatch ==
    [][/\ hist'.calls[2] <= hist'.calls[1]
       /\ (/\ hist'.calls[1] > hist.calls[1]
           /\ http'.request # None
           /\ Val(http'.request).content_length # 0
           /\ hist'.calls[2] = 0
           /\ stream'.is_opened) =>
              /\ stream'.read_callback # None
              /\ Val(stream'.read_callback).beh = "parse_body"
              /\ stream'.bytes_to_read =
                     Some(Val(http'.request).content_length)
       /\ (/\ http'.reacts > http.reacts
           /\ Val(http'.request).content_length # 0) =>
              /\ hist'.calls[2] = 1
              /\ Len(Val(http'.request).body) =
                     Val(http'.request).content_length
       /\ (/\ http'.reacts > http.reacts
           /\ Val(http'.request).content_length = 0) =>
              hist'.calls[1] > hist.calls[1]
       /\ (/\ hist'.calls[1] > hist.calls[1]
           /\ http'.request # None
           /\ Val(http'.request).content_length = 0) =>
              LET request == Val(http'.request)
              IN  /\ http'.reacts = 1
                  /\ hist'.calls[2] = 0
                  /\ stream'.bytes_to_read = None
                  /\ request.body = None
                  /\ request.params =
                         IF request.method = "get"
                         THEN Some({<<<<request.url[i - 1]>>,
                                      <<request.url[i + 1]>>>> :
                                       i \in {j \in DOMAIN request.url :
                                                 request.url[j] = "="}})
                         ELSE Some({})]_vars

----------------------------------------------------------------------------
(* The driver by itself: a host whose select module has any of select,     *)
(* poll, epoll and kqueue; the reactor's constructor picks the driver, and *)
(* the methods of the picked driver are called where it is one of the      *)
(* classes of wind/driver.py that implements them (Select, Kqueue), for    *)
(* any fd with any mask.                                                   *)

InitHost ==
    /\ stream = InitStream(None)
    /\ reactor = InitReactor
    /\ driver \in {[read_fds |-> {}, write_fds |-> {}, error_fds |-> {},
                    events |-> EmptyDict, kq |-> {}, host |-> host,
                    picked |-> None] :
                      host \in SUBSET {"select", "poll", "epoll", "kqueue"}}
    /\ sock = InitSock(1)
    /\ http = NoHttp
    /\ pc = "top"
    /\ hist = InitHist
    /\ last = InitLast

\* Select.fds, Kqueue.fds: whether the picked driver holds fd.
Registered(d, fd) ==
    IF d.picked = Some("Select") THEN fd \in SelectFds(d)
    ELSE fd \in DOMAIN d.events

\* A method of the driver was called with (fd, event_mask).
DriverCalled(w, op, fd, event_mask) ==
    /\ driver.picked \in {Some("Select"), Some("Kqueue")}
    /\ hist.nrops < MaxDriverOps
    /\ Commit(w)
    /\ pc' = pc
    /\ last' = [Step(op, w) EXCEPT !.fd = Some(fd), !.event_mask = event_mask]

DoPick ==
    /\ driver.picked = None
    /\ Applied(Pick(World, driver.host), "pick")

DoRegister ==
    \E fd \in {StreamFd, OtherFd}, event_mask \in SUBSET (READ \cup WRITE \cup ERROR) :
        DriverCalled(IF driver.picked = Some("Select")
                     THEN SelectRegister(Called, fd, event_mask)
                     ELSE KqueueRegister(Called, fd, event_mask),
                     "register", fd, event_mask)

DoUnregister ==
    \E fd \in {StreamFd, OtherFd} :
        DriverCalled(IF driver.picked = Some("Select")
                     THEN SelectUnregister(Called, fd)
                     ELSE KqueueUnregister(Called, fd),
                     "unregister", fd, {})

DoModify ==
    \E fd \in {StreamFd, OtherFd}, event_mask \in SUBSET (READ \cup WRITE \cup ERROR) :
        DriverCalled(IF driver.picked = Some("Select")
                     THEN SelectModify(Called, fd, event_mask)
                     ELSE KqueueModify(Called, fd, event_mask),
                     "modify", fd, event_mask)

NextDriver ==
    \/ DoPick
    \/ DoRegister
    \/ DoUnregister
    \/ DoModify

SpecDriver == InitHost /\ [][NextDriver]_vars

\* C23: pick chooses by the priority edge-triggered (epoll, kqueue) over
\* poll over select among the facilities the host has, and fails with
\* WindException when the host has none.
PickFollowsPriority ==
    [][last'.op = "pick" =>
          LET host == driver.host
              edge == host \cap {"epoll", "kqueue"}
          IN  /\ host = {} => last'.exc = "WindException" /\ driver'.picked = None
              /\ host # {} => last'.exc = "" /\ driver'.picked # None
              /\ edge # {} =>
                     /\ driver'.picked \in {Some("Epoll"), Some("Kqueue")}
                     /\ driver'.picked = Some("Epoll") => "epoll" \in host
                     /\ driver'.picked = Some("Kqueue") => "kqueue" \in host
              /\ edge = {} /\ "poll" \in host => driver'.picked = Some("Poll")
              /\ host = {"select"} => driver'.picked = Some("Select")]_vars

\* pick has chosen epoll on a host that has select, poll and epoll.
PickedEpollOverPollAndSelect ==
    /\ last.op = "pick"
    /\ driver.host = {"select", "poll", "epoll"}
    /\ driver.picked = Some("Epoll")

\* C24: register for a fd that is registered raises PollError and leaves
\* the driver as it was.
RegisterTwiceFails ==
    [][last'.op = "register" /\ Registered(driver, Val(last'.fd)) =>
          last'.exc = "PollError" /\ driver' = driver]_vars

\* register was called for a fd that Kqueue held for READ, with WRITE, and
\* raised PollError.
RegisteredTwice ==
    /\ last.op = "register"
    /\ last.exc = "PollError"
    /\ last.event_mask = WRITE
    /\ driver.picked = Some("Kqueue")
    /\ driver.events = [fd \in {StreamFd} |-> READ]

\* C25: unregister for a fd that is not registered raises nothing and
\* leaves the driver as it was.
UnregisterAbsentIsNoOp ==
    [][last'.op = "unregister" /\ ~Registered(driver, Val(last'.fd)) =>
          last'.exc = "" /\ driver' = driver]_vars

\* C26: modify leaves the driver as unregister followed by register would,
\* and with a mask that has none of READ, WRITE, ERROR it raises PollError.
ModifyIsUnregisterThenRegister ==
    [][last'.op = "modify" =>
          LET fd == Val(last'.fd)
              event_mask == last'.event_mask
              both == IF driver.picked = Some("Select")
                      THEN Then(SelectUnregister(World, fd),
                                LAMBDA w : SelectRegister(w, fd, event_mask))
                      ELSE Then(KqueueUnregister(World, fd),
                                LAMBDA w : KqueueRegister(w, fd, event_mask))
          IN  /\ driver' = both.driver
              /\ event_mask = {} => last'.exc = "PollError"]_vars

----------------------------------------------------------------------------
(* wind/datastructures.py: CaseInsensitiveDict, the dict of the HTTP       *)
(* headers. A key is a sequence of characters. _store is a dict, which     *)
(* keeps its keys in the order of their first insertion: a sequence of     *)
(* entries, each the transformed key with the (key, value) tuple stored    *)
(* under it. A value is None or Some(v).                                   *)

\* The keys and the values the dict is called with.
DictKeys == UNION {[1..n -> {"a", "A"}] : n \in 1..2}
DictValues == {None, Some(1)}

\* CaseInsensitiveDict._transform: str.lower
Lower(key) == [i \in DOMAIN key |-> IF key[i] = "A" THEN "a" ELSE key[i]]

\* FlexibleDict.__setitem__
DictSetItem(store, key, value) ==
    IF \E i \in DOMAIN store : store[i].key = Lower(key)
    THEN [i \in DOMAIN store |->
             IF store[i].key = Lower(key)
             THEN [key |-> Lower(key), item |-> <<key, value>>]
             ELSE store[i]]
    ELSE Append(store, [key |-> Lower(key), item |-> <<key, value>>])

\* __getitem__ that looks the key up as it is given.
DictGetItemExact(store, key) ==
    IF \A i \in DOMAIN store : store[i].key # key THEN None
    ELSE store[CHOOSE i \in DOMAIN store : store[i].key = key].item[2]

\* FlexibleDict.__getitem__
DictGetItem(store, key) ==
    IF \A i \in DOMAIN store : store[i].key # Lower(key) THEN None
    ELSE store[CHOOSE i \in DOMAIN store : store[i].key = Lower(key)].item[2]

\* CaseInsensitiveDict.get
DictGet(store, key, default) ==
    IF DictGetItem(store, key) = None THEN default
    ELSE DictGetItem(store, key)

\* CaseInsensitiveDict.__iter__
DictIter(store) == [i \in DOMAIN store |-> store[i].item[1]]

\* An empty CaseInsensitiveDict; `sets` is the history of the (key, value)
\* pairs set.
InitDict ==
    /\ stream = InitStream(None)
    /\ reactor = InitReactor
    /\ driver = InitDriver
    /\ sock = InitSock(1)
    /\ http = [store |-> <<>>, sets |-> <<>>]
    /\ pc = "top"
    /\ hist = InitHist
    /\ last = InitLast

\* dict_[key] = value
DoSetItem ==
    \E key \in DictKeys, value \in DictValues :
        /\ Len(http.sets) < MaxSets
        /\ http' = [store |-> DictSetItem(http.store, key, value),
                    sets |-> Append(http.sets, <<key, value>>)]
        /\ last' = [Quiet EXCEPT !.op = "setitem"]
        /\ UNCHANGED <<stream, reactor, driver, sock, pc, hist>>

\* A method that reads the dict was called with args and returned ret.
DictRead(op, args, ret) ==
    /\ last' = [Quiet EXCEPT !.op = op, !.arg = <<args, ret>>]
    /\ UNCHANGED <<stream, reactor, driver, sock, http, pc, hist>>

\* dict_.get(key, default)
DoGet ==
    \E key \in DictKeys, default \in DictValues \cup {Some(2)} :
        DictRead("get", <<key, default>>, DictGet(http.store, key, default))

\* dict_[key]
DoGetItem ==
    \E key \in DictKeys :
        DictRead("getitem", <<key>>, DictGetItem(http.store, key))

\* list(dict_)
DoIter == DictRead("iter", <<>>, DictIter(http.store))

NextDict ==
    \/ DoSetItem
    \/ DoGet
    \/ DoGetItem
    \/ DoIter

SpecDict == InitDict /\ [][NextDict]_vars

\* The (key, value) pairs set so far under a casing of key, in order.
SetsOf(key) == SelectSeq(http.sets, LAMBDA s : Lower(s[1]) = Lower(key))

IterationKeepsFirstCasing ==
    [][last'.op = "iter" =>
          \A key \in DictKeys :
              SetsOf(key) # <<>> =>
                  /\ Len(SelectSeq(last'.arg[2],
                                   LAMBDA k : Lower(k) = Lower(key))) = 1
                  /\ \E i \in DOMAIN last'.arg[2] :
                         last'.arg[2][i] = SetsOf(key)[1][1]]_vars

----------------------------------------------------------------------------
(* Reads left waiting, and the blocks of a write.                          *)

\* C29: when read_bytes or read_until returns with its callback not yet
\* invoked and the stream still open, a READ interest for the stream's fd
\* is registered with the reactor: the fd has its handler and the driver
\* watches it for reading.
WaitingReadHasReadInterest ==
    [][(/\ last'.op \in {"read_bytes", "read_until"}
        /\ last'.exc = ""
        /\ stream'.is_opened
        /\ stream'.read_callback # None) =>
           /\ StreamFd \in DOMAIN reactor'.handlers
           /\ StreamFd \in driver'.read_fds]_vars

\* C30: write(chunk, callback) appends to the write buffer consecutive
\* slices of chunk, each of at most _write_chunk_size bytes, whose
\* concatenation is chunk. It is observed on the writes of which the kernel
\* takes nothing, where everything appended is still in the buffer when
\* write returns.
WriteAppendsSlicesOfChunk ==
    [][(/\ last'.op = "write"
        /\ last'.exc = ""
        /\ stream'.is_opened
        /\ sock'.space = sock.space) =>
           LET old == Len(stream.write_buffer)
               appended == SubSeq(stream'.write_buffer, old + 1,
                                  Len(stream'.write_buffer))
               chunk == WriteChunk(Val(stream'.write_callback).n)
           IN  /\ SubSeq(stream'.write_buffer, 1, old) = stream.write_buffer
               /\ Join(appended) = chunk
               /\ \A i \in DOMAIN appended :
                      Len(appended[i]) <= WriteChunkSize]_vars

\* C34: a read_until callback invoked on a stream on which a read_bytes
\* was issued before gets the unread bytes up to the first occurrence of
\* its delimiter (the delimiter appended iff include), not a chunk cut by
\* the count of the earlier read_bytes.
ReadUntilAfterReadBytesUsesDelimiter ==
    [][LET call == last'.made["read"]
           d == call.cb.delimiter
           pos == Find(call.unread, d)
           stop == IF call.cb.include THEN pos + Len(d) ELSE pos
       IN  (/\ stream.bytes_to_read # None
            /\ call.cb.kind = "read"
            /\ d # <<>>
            /\ hist'.calls[call.cb.id] > hist.calls[call.cb.id]) =>
               /\ pos # -1
               /\ call.chunk = PySlice(call.unread, 0, stop)]_vars

\* C35: a READ event dispatched to an open stream that has no read pending
\* removes nothing: the bytes buffered and the bytes still to be received
\* are afterwards, in order, what they were; and a read callback gets the
\* first bytes received and not yet handed to a callback.
IdleReadEventKeepsBuffer ==
    [][/\ (/\ last'.op = "dispatch"
           /\ last'.fd = Some(StreamFd)
           /\ READ \subseteq last'.event_mask
           /\ stream.is_opened
           /\ stream'.is_opened
           /\ stream.read_callback = None) =>
              Join(stream'.read_buffer) \o sock'.wire =
                  Join(stream.read_buffer) \o sock.wire
       /\ LET call == last'.made["read"]
          IN  (/\ call.cb.kind = "read"
               /\ call.cb.n # -1
               /\ hist'.calls[call.cb.id] > hist.calls[call.cb.id]) =>
                  call.chunk = PySlice(call.unread, 0, Len(call.chunk))]_vars

----------------------------------------------------------------------------
(* The interests a stream holds and what the Select driver watches.        *)

\* C32: when a stream that holds an interest adds another, the driver
\* afterwards watches the fd for what the stream's handler_event records:
\* for reading iff it has READ and for writing iff it has WRITE, so the
\* earlier interest is not dropped at the driver.
AddedInterestKeepsEarlierOne ==
    [][(/\ stream.handler_event # None
        /\ stream'.handler_event # None
        /\ stream'.is_opened
        /\ Val(stream.handler_event) # Val(stream'.handler_event)
        /\ Val(stream.handler_event) \subseteq Val(stream'.handler_event)
        /\ last'.exc = "") =>
           /\ StreamFd \in driver'.read_fds <=>
                  READ \subseteq Val(stream'.handler_event)
           /\ StreamFd \in driver'.write_fds <=>
                  WRITE \subseteq Val(stream'.handler_event)]_vars

\* C33: with the Select driver, the registration of a mask that contains
\* WRITE (the WRITE|ERROR interest a stream attaches on backpressure) makes
\* the fd watched for writing, and a poll that returns while the stream
\* holds a WRITE interest and its fd is writable reports WRITE for it.
WriteInterestIsWatched ==
    [][/\ (/\ stream.handler_event = None
           /\ stream'.handler_event # None
           /\ WRITE \subseteq Val(stream'.handler_event)
           /\ last'.exc = "") =>
              StreamFd \in driver'.write_fds
       /\ (/\ pc = "poll"
           /\ pc' = "dispatch"
           /\ stream.is_opened
           /\ stream.handler_event # None
           /\ WRITE \subseteq Val(stream.handler_event)
           /\ Writable(World, StreamFd)) =>
              /\ StreamFd \in DOMAIN reactor'.events
              /\ WRITE \subseteq reactor'.events[StreamFd]]_vars

----------------------------------------------------------------------------
(* Deferred callbacks that raise, that schedule others, and that are       *)
(* scheduled by another thread.                                            *)

\* C36: a deferred callback that raises affects only itself: no callback
\* is run a second time, neither the one that raised nor those queued
\* before it, and a callback that was run is not left in the queue when
\* run() goes on to poll.
RaisingCallbackAffectsOnlyItself ==
    [][/\ \A j, k \in DOMAIN hist'.cb_calls :
              j # k => hist'.cb_calls[j] # hist'.cb_calls[k]
       /\ (pc = "top" /\ pc' = "poll") =>
              \A i \in DOMAIN reactor'.callbacks :
                  \A j \in DOMAIN hist'.cb_calls :
                      reactor'.callbacks[i].id # hist'.cb_calls[j]]_vars

----------------------------------------------------------------------------
(* _run_callback one callback at a time, with another thread scheduling    *)
(* callbacks at any moment. The callbacks are callables that return, stop  *)
(* the loop or schedule another callable, which may schedule the first one *)
(* in turn; none raises, so the entries the for loop's iterator has        *)
(* yielded are not read again, and reactor.callbacks holds the entries of  *)
(* the list that the iterator has yet to yield.                            *)

\* The callables: 1 and 2 schedule each other, 3 schedules 4, 4 returns,
\* 5 stops the loop; the ones another thread schedules return.
Callable(id) ==
    [id |-> id,
     beh |-> CASE id \in {1, 2, 3} -> "sched" [] id = 5 -> "stop"
               [] OTHER -> "ret",
     child |-> CASE id = 1 -> 2 [] id = 2 -> 1 [] id = 3 -> 4 [] OTHER -> 0]

\* run() about to start with the callbacks the application scheduled.
InitCallbacks ==
    /\ stream = InitStream(None)
    /\ reactor \in {[InitReactor EXCEPT !.callbacks = q] :
                       q \in {<<>>, <<Callable(1)>>, <<Callable(3)>>,
                              <<Callable(4)>>, <<Callable(5)>>,
                              <<Callable(4), Callable(1)>>}}
    /\ driver = InitDriver
    /\ sock = InitSock(0)
    /\ http = NoHttp
    /\ pc = "top"
    /\ hist = InitHist
    /\ last = InitLast

\* The top of an iteration: leave if stopped, else enter _run_callback and
\* start the for loop over self._callbacks.
IterTop ==
    /\ pc = "top"
    /\ pc' = IF reactor.running THEN "for" ELSE "stopped"
    /\ last' = Quiet
    /\ UNCHANGED <<http, stream, reactor, driver, sock, hist>>

\* One turn of the for loop: the iterator yields the next entry of the list
\* and the callback is called, or the iterator is exhausted. A callback
\* that schedules another one appends it to the list being iterated.
\* hist.cb_calls has the callables that were called, in the order of their
\* first call.
ForNext ==
    /\ pc = "for"
    /\ IF reactor.callbacks = <<>>
       THEN /\ pc' = "clear"
            /\ last' = Quiet
            /\ UNCHANGED <<http, stream, reactor, driver, sock, hist>>
       ELSE LET c == Head(reactor.callbacks)
                rest == Tail(reactor.callbacks)
            IN  /\ reactor' =
                       [reactor EXCEPT
                           !.callbacks = IF c.beh = "sched"
                                         THEN Append(rest, Callable(c.child))
                                         ELSE rest,
                           !.running = IF c.beh = "stop" THEN FALSE ELSE @]
                /\ sock' = IF c.beh = "sched" THEN HeartbeatBegin(World).sock
                           ELSE sock
                /\ hist' = [hist EXCEPT !.cb_calls =
                               IF c.id \in Range(@) THEN @
                               ELSE Append(@, c.id)]
                /\ pc' = "for"
                /\ last' = [Quiet EXCEPT !.op = "callback", !.arg = Some(c.id)]
                /\ UNCHANGED <<http, stream, driver>>

\* self._callbacks = [], after the for loop.
ClearCallbacks ==
    /\ pc = "clear"
    /\ reactor' = [reactor EXCEPT !.callbacks = <<>>]
    /\ pc' = "poll"
    /\ last' = Quiet
    /\ UNCHANGED <<http, stream, driver, sock, hist>>

\* attach_callback called by another thread, wherever run() is.
ThreadAttach ==
    LET id == 6 + hist.nsched
    IN  /\ hist.nsched < MaxThreadCallbacks
        /\ pc \notin {"stopped", "crashed"}
        /\ reactor' = [reactor EXCEPT !.callbacks = Append(@, Callable(id))]
        /\ sock' = HeartbeatBegin(World).sock
        /\ hist' = [hist EXCEPT !.nsched = @ + 1, !.woke = @ \cup {id}]
        /\ last' = [Quiet EXCEPT !.op = "attach_callback"]
        /\ UNCHANGED <<http, stream, driver, pc>>

\* The thread that called run().
LoopThread ==
    \/ IterTop
    \/ ForNext
    \/ ClearCallbacks
    \/ LoopPoll
    \/ LoopDispatch

NextCallbacks == LoopThread \/ ThreadAttach

\* The thread in run() is never suspended for ever.
SpecCallbacks ==
    InitCallbacks /\ [][NextCallbacks]_vars /\ WF_vars(LoopThread)

\* C37: every iteration of run() reaches the poll call: once run() is in
\* the for loop of _run_callback, it gets to poll.
IterationReachesPoll == (pc = "for") ~> (pc = "poll")

\* C38: a callback that another thread scheduled is not lost: it is still
\* in the queue, or it has been run.
ThreadCallbackIsNotLost ==
    \A id \in hist.woke :
        \/ id \in Range(hist.cb_calls)
        \/ \E i \in DOMAIN reactor.callbacks : reactor.callbacks[i].id = id

----------------------------------------------------------------------------
(* attach_handler for a fd that the driver already watches.                *)

\* C39: attach_handler(fd, mask, handler) for a fd that is already
\* registered fails and leaves the reactor's handler table as it was.
AttachRegisteredFdKeepsHandler ==
    [][\A fd \in ReactorFds, event_mask \in ReactorMasks :
           (/\ ReactorTurn
            /\ fd \in SelectFds(driver)
            /\ Applied(AttachHandler(Called, fd, event_mask, "h1"),
                       "attach_handler"))
           => /\ last'.exc = "PollError"
              /\ reactor'.handlers = reactor.handlers]_vars


----------------------------------------------------------------------------
(* A Resource finishing a response that its handler made, on a connection  *)
(* whose peer reads at its own pace.                                       *)

\* The connection is open, the handler has set the response and handed its
\* chunks to Resource.write, or has set none.
InitFinish ==
    /\ stream = InitStream(None)
    /\ reactor = InitReactor
    /\ driver = InitDriver
    /\ sock \in {InitSock(s) : s \in 0..MaxSpace}
    /\ http \in {[NoHttp EXCEPT !.response = r, !.py3 = py3] :
                    r \in {None} \cup {Some(WriteChunk(n)) : n \in 1..MaxWrite},
                    py3 \in BOOLEAN}
    /\ pc = "top"
    /\ hist = InitHist
    /\ last = InitLast

\* Resource.finish, once: it ends with _clear, which forgets the connection.
DoFinish ==
    /\ AppTurn
    /\ hist.nops = 0
    /\ Applied(Finish(Issue), "finish")

NextFinish ==
    \/ DoFinish
    \/ PeerDrain
    \/ LoopTop
    \/ LoopPoll
    \/ LoopDispatch

SpecFinish == InitFinish /\ [][NextFinish]_vars

\* C40: when a Resource finishes a response, the connection is closed only
\* when every byte handed to the stream's write has been written to the
\* socket.
FinishFlushesBeforeClose ==
    [][(last'.op = "finish" /\ last'.exc = "" /\ ~stream'.is_opened)
          => hist'.owed = <<>>]_vars

====
